---- MODULE Spec2Model ----
(***************************************************************************)
(* Model of the tagging_and_lyrics integration:                            *)
(*   lyrics.py   the lyrics session coroutine fetch_lyrics_for_track, the  *)
(*               playback watcher monitor_playback, the fetch_lyrics       *)
(*               service handler and the tagging hand-off;                 *)
(*   tagging.py  the chunked tagging run listen_for_audio;                 *)
(*   spotify.py  the token exchange and refresh of SpotifyService and its  *)
(*               add_track_to_playlist.                                    *)
(*                                                                         *)
(* Scheduling.  The host runs one cooperative event loop.  A coroutine     *)
(* runs without interruption from one await to the next, so every action   *)
(* of a session or of a tagging run is the code between two awaits.  A     *)
(* session that reaches the head of its loop again without having awaited  *)
(* keeps the loop to itself: holder names it, and nothing but the wall     *)
(* clock moves until it awaits or returns.                                 *)
(*                                                                         *)
(* Calls of coroutine functions from synchronous code.  monitor_playback   *)
(* and trigger_lyrics_lookup call fetch_lyrics_for_track, and              *)
(* monitor_playback and get_media_player_info call                         *)
(* update_lyrics_input_text, without await.  The model takes such a call   *)
(* as made: a display write takes effect at the call, and a session        *)
(* becomes a task of the event loop that runs from its first line when     *)
(* the loop is next free.                                                  *)
(*                                                                         *)
(* Time is in milliseconds.  A display write is one write of the three     *)
(* slots.                                                                  *)
(***************************************************************************)
EXTENDS Integers, Sequences, FiniteSets, TLC

\* ---------------------------------------------------------------- bounds
MaxSessions == 2
MaxTicks == 1
MaxListeners == 1
MaxRuns == 2
MaxLines == 3
MaxSoloTicks == 25
MaxCalls == 2
MaxClockSteps == 3
MaxCopies == 2

\* ------------------------------------------------------ program constants
\* lyrics.py:311 interval = 0.1 (seconds), the sleep increment
IntervalMs == 100
\* lyrics.py:252 asyncio.sleep(1) while the player is paused
PausePollMs == 1000
\* tagging.py:21
FINETUNE_SYNC == 2
\* tagging.py:33
CHUNK_DURATION == 3
\* tagging.py:34
MAX_TOTAL_DURATION == 12
\* tagging.py:38, Range(min=1, max=60)
MinDuration == 1
MaxDuration == 60

\* spotify.py:199 the margin, in seconds, inside which a token counts as expiring
RefreshMargin == 300

Sessions == 1..MaxSessions
Runs == 1..MaxRuns

None == <<>>
Some(x) == <<x>>
IsNone(o) == o = <<>>
Val(o) == o[1]

Max(a, b) == IF a >= b THEN a ELSE b
Min(a, b) == IF a <= b THEN a ELSE b

\* ------------------------------------------------------------ content ids
\* A content id is a sequence of tokens; the first token is its scheme prefix.
RadioPrefix == "library://radio"
\* attributes.get("media_content_id", "") of a player without one, lyrics.py:364
IdNone == <<>>
IdA == <<"spotify://", "a">>
IdR == <<"library://radio", "r">>

\* str.startswith("library://radio"), lyrics.py:376 (IsRadioMut: a test that
\* takes no id for a radio id)
IsRadioMut(id) == FALSE
IsRadio(id) == Len(id) >= 1 /\ id[1] = RadioPrefix

\* ------------------------------------------------------------ lyrics text
\* A lyrics document is a sequence of lines; a line carries a leading
\* timestamp (stamped, minutes, millis of the seconds field), how the digits of
\* the timestamp parse, and its text.  The digits parse ("ok"), or int() or
\* float() rejects them or the colon is missing ("bad": ValueError, IndexError),
\* or the seconds field is a float too large for int(), as "inf" or "1e400"
\* ("overflow": OverflowError).
Line(st, m, ms, tx) ==
    [stamped |-> st, minutes |-> m, millis |-> ms, text |-> tx, parse |-> "ok"]
BadLine(tx) == [Line(TRUE, 0, 0, tx) EXCEPT !.parse = "bad"]
OverflowLine(tx) == [Line(TRUE, 0, 0, tx) EXCEPT !.parse = "overflow"]
DocExample == << Line(TRUE, 0, 0, "a"), Line(FALSE, 0, 0, "credits"), Line(TRUE, 0, 1000, "b"),
                 Line(TRUE, 0, 1500, ""), Line(TRUE, 0, 2000, "c") >>
DocPlain == << Line(FALSE, 0, 0, "no timestamps here") >>
\* what provider.search may return: nothing, or one of the documents
SearchResults == {None, Some(DocPlain), Some(DocExample)}

\* lyrics.py:26, line.startswith(("[0", "[1", "[2", "[3")), for a timestamp with
\* a two-digit minute field: the first digit of the minutes is 0 to 3
Recognised(l) == l.stamped /\ (l.minutes \div 10) \in 0..3

\* lyrics.py:45-47, int((minutes * 60 + seconds) * 1000) in binary floating
\* point.  The product of a seconds field that has no exact binary form can
\* fall just below the whole number, and int() cuts the fraction off:
\* "00:02.01" gives 2009.  FloatBelow holds the <<minutes, millis>> of the
\* model's inputs for which it does (whole and half seconds are exact).
FloatBelow == {<<0, 2010>>}
ToMilliseconds(minutes, millis) ==
    (minutes * 60) * 1000 + millis - (IF <<minutes, millis>> \in FloatBelow THEN 1 ELSE 0)

\* lyricSplit, lyrics.py:21-55: the recognised lines with non-empty text whose
\* digits parse, in the order of the text; the except clause of line 51 drops a
\* line with "bad" digits, and does not catch the OverflowError of line 47
RECURSIVE lyricSplit(_)
lyricSplit(doc) ==
    IF doc = <<>> THEN [timeline |-> <<>>, lrc |-> <<>>, raised |-> FALSE]
    ELSE LET l == Head(doc)
             r == lyricSplit(Tail(doc))
         IN IF ~Recognised(l) \/ l.text = "" \/ l.parse = "bad" THEN r
            ELSE IF l.parse = "overflow" \/ r.raised
            THEN [timeline |-> <<>>, lrc |-> <<>>, raised |-> TRUE]
            ELSE [timeline |-> <<ToMilliseconds(l.minutes, l.millis)>> \o r.timeline,
                  lrc |-> <<l.text>> \o r.lrc, raised |-> FALSE]

\* ------------------------------------------------------------ display
Clear == <<"", "", "">>
NotSynced == <<"Lyrics not synced", "", "">>
Listening == <<"Listening......", "", "">>

\* Python's 0-based seq[k]
Py(seq, k) == seq[k + 1]

\* lyrics.py:303-305, the three lines shown for interval n (TripleMut: the
\* previous line taken one index too far on)
TripleMut(lrc, n) ==
    << IF n > 1 THEN Py(lrc, n - 1) ELSE "", Py(lrc, n - 1),
       IF n < Len(lrc) THEN Py(lrc, n) ELSE "" >>
Triple(lrc, n) ==
    << IF n > 1 THEN Py(lrc, n - 2) ELSE "", Py(lrc, n - 1),
       IF n < Len(lrc) THEN Py(lrc, n) ELSE "" >>

\* lyrics.py:302, the interval test
InInterval(timeline, n, mt) == Py(timeline, n - 1) <= mt /\ mt <= Py(timeline, n)

\* lyrics.py:57-73 calculate_media_timecode, in milliseconds and rounded to
\* 2 decimals of a second (10 ms), half up.  updated is None, a timestamp, or
\* a string that fromisoformat rejects (lyrics.py:66-69).
\* (Round10Mut: the digits after the second decimal cut off;
\* calculate_media_timecodeMut: the elapsed time taken off instead of added)
Unparsable == <<"not", "iso">>
IsUnparsable(updated) == Len(updated) = 2
Round10Mut(ms) == (ms \div 10) * 10
Round10(ms) == ((ms + 5) \div 10) * 10
calculate_media_timecodeMut(pos, updated, clock) ==
    IF IsNone(pos) \/ IsNone(updated) THEN 0
    ELSE Round10(Val(pos) - (clock - Val(updated)))
calculate_media_timecode(pos, updated, clock) ==
    IF IsNone(pos) \/ IsNone(updated) THEN 0
    ELSE IF IsUnparsable(updated) THEN 0
    ELSE Round10(Val(pos) + (clock - Val(updated)))

\* ------------------------------------------------------------ state
\* Every timestamp the state holds (updated_at, pause_start, the end of a
\* sleep) is kept relative to the current instant, so that datetime.now(), which
\* the code reads at lyrics.py:71, 249, 254 and tagging.py:195, is 0; when the
\* clock advances, Tick moves the timestamps back.
now == 0

VARIABLES
    ACTIVE_LYRICS_LOOP,     \* "None", "True" or "False" (lyrics.py:15)
    LAST_MEDIA_CONTENT_ID,  \* None or Some(id) (lyrics.py:14)
    player,                 \* the host's media player entity: state and content id
    display,                \* input_text.line1..3
    listeners,              \* monitor_playback callbacks registered
    pendingCb,              \* callbacks still to run for the last state change
    sess,                   \* the fetch_lyrics_for_track coroutines
    started,                \* how many of them have been created
    holder,                 \* session that keeps the event loop, or 0
    obs,                    \* per session, what the claims observe of it
    run,                    \* the listen_for_audio coroutines (tagging.py:199)
    switch,                 \* the capture-enable switch ..._tagging_enable
    tagging_service,        \* hass.data["tagging_service"]: the latest run, or 0
    tagging_result,         \* sensor.tagging_result
    probe,                  \* the last call of a pure function: its name, input and result
    spotify_service,        \* hass.data["spotify_service"]: the SpotifyService object
    store,                  \* what SpotifyService.store holds on disk, or None
    clock,                  \* hass.loop.time() in whole seconds
    playlist,               \* copies of the track in the playlist of playlist_id
    calls                   \* the exchange_code and add_track_to_playlist coroutines

lyricsVars == << ACTIVE_LYRICS_LOOP, LAST_MEDIA_CONTENT_ID, player,
                 display, listeners, pendingCb, sess, started, holder, obs >>
tagVars == << run, switch, tagging_service, tagging_result >>
pureVars == << probe >>
spotifyVars == << spotify_service, store, clock, playlist, calls >>
vars == << lyricsVars, tagVars, pureVars, spotifyVars >>

\* what the host may report of the player in a state change
PlayerReports ==
    {[state |-> "playing", id |-> IdA], [state |-> "playing", id |-> IdR],
     [state |-> "playing", id |-> IdNone], [state |-> "paused", id |-> IdR]}
\* a raw title is a sequence of tokens: words, bracketed annotations, hyphens
Word(tx) == [kind |-> "word", text |-> tx]
Paren(tx) == [kind |-> "paren", text |-> tx]
Hyphen == [kind |-> "hyphen", text |-> "-"]
SongX == <<"Song X">>
Artists == {"", "Artist Y"}
\* how long before the notification the host took the position snapshot
SnapshotAges == {500, 1500, 1900}
PlayOffsets == {0, 45000}

Truthy(flag) == flag = "True"

IdleSession ==
    [pc |-> "idle", track |-> <<>>, artist |-> "", pos |-> None, updated_at |-> None,
     audiofingerprint |-> FALSE, timeline |-> <<>>, lrc |-> <<>>, n |-> 0,
     media_timecode |-> 0, total_sleep |-> 0, wake |-> 0, pause_start |-> 0, lived |-> 0]

\* pcs at which a session is inside `while ACTIVE_LYRICS_LOOP` (lyrics.py:241-321)
LoopPcs == {"top", "pause", "L307", "sleep", "L316", "L296"}
InLoop(s) == sess[s].pc \in LoopPcs
Active(s) == sess[s].pc \notin {"idle", "done"}

\* what the claims observe of a session: the kind of its last display write
\* ("none", "clear", "line", "text"), whether it has entered the loop, whether the
\* flag was set to a cancelled value while it was in its loop, whether a later
\* session was started while it was in its loop, whether it has written a lyric
\* line, whether it was started by a tagging hand-off at this very instant,
\* its first projection when that is made at the instant of the hand-off, and
\* whether it ended by an exception that nothing in it caught
IdleObs ==
    [lastWrite |-> "none", enteredLoop |-> FALSE, cancelled |-> FALSE, superseded |-> FALSE,
     wroteLine |-> FALSE, fresh |-> FALSE, firstProj |-> None, raised |-> FALSE]

\* a listen_for_audio coroutine with its TaggingService instance: where it is,
\* its arguments and locals, self.running, how many chunks it has recorded and
\* submitted, whether it has turned the switch off, whether a response held a
\* match, and how many notifications it has created
IdleRun ==
    [pc |-> "idle", max_duration |-> 0, include_lyrics |-> FALSE, total_chunks |-> 0, i |-> 0,
     success |-> FALSE, response |-> None, recorded |-> 0, attempts |-> 0,
     running |-> FALSE, turnedOff |-> FALSE, matched |-> FALSE, notifications |-> 0]

\* no pure function has been called yet
NoProbe == [fn |-> "none", arg |-> <<>>, out |-> <<>>]

InitHost ==
    /\ ACTIVE_LYRICS_LOOP = "None"
    /\ LAST_MEDIA_CONTENT_ID = None
    /\ player = [state |-> "idle", id |-> IdNone]
    /\ display = Clear
    /\ listeners = 0
    /\ pendingCb = 0
    /\ sess = [s \in Sessions |-> IdleSession]
    /\ started = 0
    /\ holder = 0
    /\ obs = [s \in Sessions |-> IdleObs]
    /\ run = [r \in Runs |-> IdleRun]
    /\ switch = "off"
    /\ tagging_service = 0
    /\ tagging_result = "unknown"
    /\ probe = NoProbe

\* SpotifyService.__init__, spotify.py:77-93: the configuration decides
\* playlist_id and create_playlist, nothing is authorized and no token is held.
\* user_id, which only names the URL of the playlist request, is left out.
SpotifyService(playlist_id, create_playlist) ==
    [playlist_id |-> playlist_id, create_playlist |-> create_playlist,
     authorized |-> FALSE,
     access_token |-> None, refresh_token |-> None, expires_at |-> 0]

\* a coroutine slot of the Spotify service that is not in use
IdleCall ==
    [kind |-> "none", pc |-> "idle", ret |-> "none", after |-> "none", data |-> None,
     success |-> FALSE, total |-> 0, result |-> "none",
     notified |-> FALSE, refresh |-> "none", saved |-> FALSE]

\* the service as async_setup leaves it over an empty store (spotify.py:95-110:
\* nothing is loaded, no refresh is tried, no playlist is created)
InitService(playlist_id, create_playlist) ==
    /\ spotify_service = SpotifyService(playlist_id, create_playlist)
    /\ store = None
    /\ clock = 0
    /\ playlist = 0
    /\ calls = [c \in 1..MaxCalls |-> IdleCall]

\* the default configuration: no playlist_id, create_playlist True (spotify.py:82-83)
Init == InitHost /\ InitService(None, TRUE)

\* ------------------------------------------------- what the claims observe
Kind(triple, isLine) ==
    IF isLine THEN "line" ELSE IF triple = Clear THEN "clear" ELSE "text"

\* ACTIVE_LYRICS_LOOP is assigned val by `by` (a session, or 0 for a handler):
\* every other session inside its loop has now been cancelled once.
ObsAfterFlag(o, by, val) ==
    [s \in Sessions |->
        IF s # by /\ InLoop(s) /\ val # "True" THEN [o[s] EXCEPT !.cancelled = TRUE] ELSE o[s]]

\* session s writes triple to the display; isLine: it is the write of lyrics.py:307
ObsAfterWrite(o, s, triple, isLine) ==
    [o EXCEPT ![s].lastWrite = Kind(triple, isLine), ![s].wroteLine = @ \/ isLine]

\* a new session takes slot s
ObsAfterStart(o, s, byTagging) ==
    [t \in Sessions |->
        IF t = s THEN [IdleObs EXCEPT !.fresh = byTagging]
        ELSE IF InLoop(t) THEN [o[t] EXCEPT !.superseded = TRUE]
        ELSE o[t]]

\* session s returns
ObsAfterReturn(o, s) ==
    [o EXCEPT ![s].cancelled = FALSE, ![s].superseded = FALSE, ![s].fresh = FALSE,
              ![s].firstProj = None]

\* ------------------------------------------------------------ environment
\* a session whose await has returned, or whose sleep is over: the event loop
\* runs it when it is next free
Ready(s) ==
    \/ sess[s].pc \in {"start", "L197", "L307", "L316", "L296"}
    \/ sess[s].pc \in {"sleep", "pause"} /\ now >= sess[s].wake

\* the wall clock advances by one increment, for at most `most` increments in
\* the life of a session.  The code between two awaits takes no time: the
\* clock moves when no callback and no task is waiting to run, or while a
\* session keeps the event loop
Elapse(most) ==
    /\ holder # 0 \/ (pendingCb = 0 /\ \A s \in Sessions : ~Ready(s))
    /\ \A s \in Sessions : Active(s) => sess[s].lived < most
    /\ sess' = [s \in Sessions |->
                  IF ~Active(s) THEN sess[s]
                  ELSE [sess[s] EXCEPT
                          !.updated_at = IF IsNone(@) THEN @ ELSE Some(Val(@) - IntervalMs),
                          !.pause_start = IF sess[s].pc = "pause" THEN @ - IntervalMs ELSE @,
                          !.wake = IF sess[s].pc \in {"sleep", "pause"}
                                   THEN Max(@ - IntervalMs, now) ELSE @,
                          !.lived = @ + 1]]
    /\ obs' = [s \in Sessions |-> [obs[s] EXCEPT !.fresh = FALSE]]
    /\ UNCHANGED << ACTIVE_LYRICS_LOOP, LAST_MEDIA_CONTENT_ID, player, display, listeners,
                    pendingCb, started, holder, tagVars >>

Tick == Elapse(MaxTicks) /\ UNCHANGED << pureVars, spotifyVars >>

\* the report makes the watcher look up a new track (lyrics.py:376, 385)
WantsSession(st, id) ==
    st = "playing" /\ ~IsRadio(id) /\ id # IdNone /\ Some(id) # LAST_MEDIA_CONTENT_ID

\* the host changes the player entity and notifies the registered callbacks; the
\* reports that start a session stop when MaxSessions have been started
HostReports(st, id) ==
    /\ holder = 0
    /\ pendingCb = 0
    /\ listeners = 0 \/ started < MaxSessions \/ ~WantsSession(st, id)
    /\ player' = [state |-> st, id |-> id]
    /\ pendingCb' = listeners
    /\ UNCHANGED << ACTIVE_LYRICS_LOOP, LAST_MEDIA_CONTENT_ID, display, listeners,
                    sess, started, holder, obs, tagVars >>

Notify(st, id) == HostReports(st, id) /\ UNCHANGED << pureVars, spotifyVars >>

\* ------------------------------------------------------------ lyrics.py
\* the slot the next coroutine takes
NextSlot == started + 1
HasFreeSlot == started < MaxSessions

\* the coroutine object made by calling fetch_lyrics_for_track(...), lyrics.py:155
\* (NewSessionMut: the position timestamp replaced by the current instant)
NewSessionMut(track, artist, pos, updated_at, audiofingerprint) ==
    [IdleSession EXCEPT !.pc = "start", !.track = track, !.artist = artist, !.pos = pos,
                        !.updated_at = Some(now), !.audiofingerprint = audiofingerprint]
NewSession(track, artist, pos, updated_at, audiofingerprint) ==
    [IdleSession EXCEPT !.pc = "start", !.track = track, !.artist = artist, !.pos = pos,
                        !.updated_at = updated_at, !.audiofingerprint = audiofingerprint]
DoneSession == [IdleSession EXCEPT !.pc = "done"]

\* a mutant of clean_track_name: the title is not cut at the hyphen
RECURSIVE clean_track_nameMut(_)
clean_track_nameMut(track) ==
    IF track = <<>> THEN <<>>
    ELSE IF Head(track).kind \in {"paren", "hyphen"} THEN clean_track_nameMut(Tail(track))
    ELSE <<Head(track).text>> \o clean_track_nameMut(Tail(track))

\* clean_track_name, lyrics.py:81-105: the annotations in brackets are removed and
\* the title is cut at its first hyphen; what is left is the words before it
RECURSIVE clean_track_name(_)
clean_track_name(track) ==
    IF track = <<>> \/ Head(track).kind = "hyphen" THEN <<>>
    ELSE IF Head(track).kind = "paren" THEN clean_track_name(Tail(track))
    ELSE <<Head(track).text>> \o clean_track_name(Tail(track))

\* get_media_player_info, lyrics.py:123-153, on what hass.states.get returns
\* for the entity (None when there is no such entity) and on the attributes
\* media_title, media_artist and media_position_updated_at of the player:
\* <<track, artist, pos, updated_at>> and the placeholder it writes, if any.
\* Line 126 reads player_state.attributes before line 133 tests player_state,
\* so the call raises for an entity that is not there.
Absent == [raised |-> FALSE, found |-> FALSE, track |-> <<>>, artist |-> "", updated_at |-> None,
           text |-> None]
get_media_player_info(player_state, media_title, media_artist, updated_at) ==
    IF IsNone(player_state)
    THEN [Absent EXCEPT !.raised = TRUE]
    ELSE IF Val(player_state).state # "playing"
    THEN [Absent EXCEPT !.text = Some(<<"Waiting for playback to start", "", "">>)]
    ELSE IF clean_track_name(media_title) = <<>> \/ media_artist = ""
    THEN [Absent EXCEPT !.text = Some(<<"Missing track or artist", "", "">>)]
    ELSE [Absent EXCEPT !.found = TRUE, !.track = clean_track_name(media_title),
                        !.artist = media_artist, !.updated_at = updated_at]

\* handle_fetch_lyrics, lyrics.py:345-418: cancel the current session, register
\* one more monitor_playback listener
handle_fetch_lyrics ==
    /\ holder = 0
    /\ listeners < MaxListeners
    /\ ACTIVE_LYRICS_LOOP' = IF Truthy(ACTIVE_LYRICS_LOOP) THEN "False" ELSE ACTIVE_LYRICS_LOOP
    /\ obs' = IF Truthy(ACTIVE_LYRICS_LOOP) THEN ObsAfterFlag(obs, 0, "False") ELSE obs
    /\ listeners' = listeners + 1
    /\ UNCHANGED << LAST_MEDIA_CONTENT_ID, player, display, pendingCb, sess, started,
                    holder, tagVars, pureVars, spotifyVars >>

\* MonitorNew with the id recorded before the test of track and artist
MonitorNewMut(media_title, media_artist, updated_at) ==
    LET media_content_id == player.id
        info == get_media_player_info(Some(player), media_title, media_artist, updated_at)
    IN /\ ACTIVE_LYRICS_LOOP' = "False"
       /\ display' = IF IsNone(info.text) THEN Clear ELSE Val(info.text)
       /\ LAST_MEDIA_CONTENT_ID' = Some(media_content_id)
       /\ IF info.found
          THEN /\ HasFreeSlot
               /\ sess' = [sess EXCEPT ![NextSlot] =
                              NewSession(info.track, info.artist, Some(0), info.updated_at, FALSE)]
               /\ started' = started + 1
               /\ obs' = ObsAfterStart(ObsAfterFlag(obs, 0, "False"), NextSlot, FALSE)
          ELSE /\ obs' = ObsAfterFlag(obs, 0, "False")
               /\ UNCHANGED << sess, started >>

\* monitor_playback, lyrics.py:385-399: the player is playing a new non-radio id
MonitorNew(media_title, media_artist, updated_at) ==
    LET media_content_id == player.id
        info == get_media_player_info(Some(player), media_title, media_artist, updated_at)
    IN /\ ACTIVE_LYRICS_LOOP' = "False"
       /\ display' = IF IsNone(info.text) THEN Clear ELSE Val(info.text)
       /\ IF info.found
          THEN /\ HasFreeSlot
               /\ LAST_MEDIA_CONTENT_ID' = Some(media_content_id)
               /\ sess' = [sess EXCEPT ![NextSlot] =
                              NewSession(info.track, info.artist, Some(0), info.updated_at, FALSE)]
               /\ started' = started + 1
               /\ obs' = ObsAfterStart(ObsAfterFlag(obs, 0, "False"), NextSlot, FALSE)
          ELSE /\ obs' = ObsAfterFlag(obs, 0, "False")
               /\ UNCHANGED << LAST_MEDIA_CONTENT_ID, sess, started >>

\* monitor_playback, lyrics.py:402-413: not playing, or a radio id
MonitorOther ==
    /\ LAST_MEDIA_CONTENT_ID' =
          IF player.state = "playing" /\ player.id # IdNone
          THEN Some(player.id) ELSE LAST_MEDIA_CONTENT_ID
    /\ ACTIVE_LYRICS_LOOP' = "None"
    /\ obs' = ObsAfterFlag(obs, 0, "None")
    /\ UNCHANGED << display, sess, started >>

\* monitor_playback, lyrics.py:355-413, one run of a registered callback
monitor_playback(media_title, media_artist, updated_at) ==
    /\ holder = 0
    /\ pendingCb > 0
    /\ pendingCb' = pendingCb - 1
    /\ IF player.state = "playing" /\ ~IsRadio(player.id)
       THEN IF player.id # IdNone /\ Some(player.id) # LAST_MEDIA_CONTENT_ID
            THEN MonitorNew(media_title, media_artist, updated_at)
            ELSE UNCHANGED << ACTIVE_LYRICS_LOOP, LAST_MEDIA_CONTENT_ID, display, sess,
                              started, obs >>
       ELSE MonitorOther
    /\ UNCHANGED << player, listeners, holder, tagVars, pureVars, spotifyVars >>

\* trigger_lyrics_lookup, lyrics.py:107-121, called with the recognised song;
\* play_offset_ms/1000 seconds is kept in milliseconds
trigger_lyrics_lookup(title, artist, play_offset_ms, process_begin) ==
    IF title = <<>> \/ artist = ""
    THEN UNCHANGED << sess, started, obs >>
    ELSE /\ HasFreeSlot
         /\ sess' = [sess EXCEPT ![NextSlot] =
                        NewSession(title, artist, Some(play_offset_ms), Some(process_begin), TRUE)]
         /\ started' = started + 1
         /\ obs' = ObsAfterStart(obs, NextSlot, TRUE)

\* LyricsHandoff without the test of include_lyrics
LyricsHandoffMut(title, artist, play_offset_ms, include_lyrics) ==
    IF title # <<>> /\ artist # ""
    THEN trigger_lyrics_lookup(title, artist, play_offset_ms, now - FINETUNE_SYNC * 1000)
    ELSE UNCHANGED << sess, started, obs >>

\* handle_successful_match, tagging.py:192-197: the hand-off to the lyrics session
LyricsHandoff(title, artist, play_offset_ms, include_lyrics) ==
    IF include_lyrics /\ title # <<>> /\ artist # ""
    THEN trigger_lyrics_lookup(title, artist, play_offset_ms, now - FINETUNE_SYNC * 1000)
    ELSE UNCHANGED << sess, started, obs >>

\* handle_successful_match, tagging.py:179-197, as the lyrics engine sees it: a
\* tagging run has recognised a song, clears the display and hands the song over
TaggingHandoff(title, artist, play_offset_ms) ==
    /\ holder = 0
    /\ pendingCb = 0
    /\ display' = Clear
    /\ LyricsHandoff(title, artist, play_offset_ms, TRUE)
    /\ UNCHANGED << ACTIVE_LYRICS_LOOP, LAST_MEDIA_CONTENT_ID, player, listeners,
                    pendingCb, holder, tagVars, pureVars, spotifyVars >>

\* ------------------------------------------- fetch_lyrics_for_track, lyrics.py
\* Each action is the code from one await (or the start) to the next.

\* what no step of a session changes
SessionFrame ==
    UNCHANGED << LAST_MEDIA_CONTENT_ID, player, listeners, pendingCb, started, tagVars, pureVars, spotifyVars >>

\* the first projection of a session started by tagging, when it is made at the
\* instant of the hand-off
ObsAfterProjection(o, s, mt) ==
    IF o[s].fresh THEN [o EXCEPT ![s].fresh = FALSE, ![s].firstProj = Some(mt)] ELSE o

\* a mutant of SessionBegin: with the toggle off the display is cleared before
\* the return
SessionBeginMut(s, lyrics_enable) ==
    /\ holder = 0
    /\ sess[s].pc = "start"
    /\ IF IsNone(sess[s].pos) \/ IsNone(sess[s].updated_at)
       THEN /\ ACTIVE_LYRICS_LOOP' = "None"
            /\ obs' = ObsAfterReturn(ObsAfterFlag(obs, s, "None"), s)
            /\ sess' = [sess EXCEPT ![s] = DoneSession]
            /\ UNCHANGED display
       ELSE IF ~lyrics_enable
       THEN /\ sess' = [sess EXCEPT ![s] = DoneSession]
            /\ obs' = ObsAfterReturn(obs, s)
            /\ display' = Clear
            /\ UNCHANGED ACTIVE_LYRICS_LOOP
       ELSE /\ display' = Clear
            /\ obs' = ObsAfterWrite(obs, s, Clear, FALSE)
            /\ sess' = [sess EXCEPT ![s].pc = "L197"]
            /\ UNCHANGED ACTIVE_LYRICS_LOOP
    /\ UNCHANGED holder
    /\ SessionFrame

\* lyrics.py:159-197: the checks, then the first clear; lyrics_enable is the
\* state of input_boolean.lyrics_enable read at line 180
SessionBegin(s, lyrics_enable) ==
    /\ holder = 0
    /\ sess[s].pc = "start"
    /\ IF IsNone(sess[s].pos) \/ IsNone(sess[s].updated_at)
       THEN /\ ACTIVE_LYRICS_LOOP' = "None"
            /\ obs' = ObsAfterReturn(ObsAfterFlag(obs, s, "None"), s)
            /\ sess' = [sess EXCEPT ![s] = DoneSession]
            /\ UNCHANGED display
       ELSE IF ~lyrics_enable
       THEN /\ sess' = [sess EXCEPT ![s] = DoneSession]
            /\ obs' = ObsAfterReturn(obs, s)
            /\ UNCHANGED << ACTIVE_LYRICS_LOOP, display >>
       ELSE /\ display' = Clear
            /\ obs' = ObsAfterWrite(obs, s, Clear, FALSE)
            /\ sess' = [sess EXCEPT ![s].pc = "L197"]
            /\ UNCHANGED ACTIVE_LYRICS_LOOP
    /\ UNCHANGED holder
    /\ SessionFrame

\* lyrics.py:199-237: the flag is raised, the lyrics are searched and split
SessionLoad(s, lyrics_result) ==
    /\ holder = 0
    /\ sess[s].pc = "L197"
    /\ ACTIVE_LYRICS_LOOP' = "True"
    /\ IF IsNone(lyrics_result)
       THEN /\ display' = Clear
            /\ obs' = ObsAfterReturn(ObsAfterWrite(ObsAfterFlag(obs, s, "True"), s, Clear, FALSE), s)
            /\ sess' = [sess EXCEPT ![s] = DoneSession]
            /\ UNCHANGED holder
       ELSE LET split == lyricSplit(Val(lyrics_result))
            IN IF split.raised
               THEN /\ sess' = [sess EXCEPT ![s] = DoneSession]
                    /\ obs' = [ObsAfterReturn(ObsAfterFlag(obs, s, "True"), s)
                                  EXCEPT ![s].raised = TRUE]
                    /\ UNCHANGED << display, holder >>
               ELSE IF split.timeline = <<>>
               THEN /\ display' = NotSynced
                    /\ obs' = ObsAfterReturn(
                                  ObsAfterWrite(ObsAfterFlag(obs, s, "True"), s, NotSynced, FALSE), s)
                    /\ sess' = [sess EXCEPT ![s] = DoneSession]
                    /\ UNCHANGED holder
               ELSE /\ sess' = [sess EXCEPT ![s].pc = "top", ![s].timeline = split.timeline,
                                            ![s].lrc = split.lrc]
                    /\ obs' = [ObsAfterFlag(obs, s, "True") EXCEPT ![s].enteredLoop = TRUE]
                    /\ holder' = s
                    /\ UNCHANGED display
    /\ SessionFrame

\* lyrics.py:185: hass.states.get(entity_id) is None for an entity that does not
\* exist, and .attributes of it raises AttributeError; no try encloses the line,
\* so the coroutine ends by the exception, before its first write
SessionEntityMissing(s) ==
    /\ holder = 0
    /\ sess[s].pc = "start"
    /\ ~IsNone(sess[s].pos) /\ ~IsNone(sess[s].updated_at)
    /\ sess' = [sess EXCEPT ![s] = DoneSession]
    /\ obs' = [ObsAfterReturn(obs, s) EXCEPT ![s].raised = TRUE]
    /\ UNCHANGED << ACTIVE_LYRICS_LOOP, display, holder >>
    /\ SessionFrame

\* lyrics.py:199-210: provider.search raises (the network, the provider's
\* parser); no try encloses the call, so the coroutine ends by the exception
\* with the flag raised at line 199
SessionSearchFault(s) ==
    /\ holder = 0
    /\ sess[s].pc = "L197"
    /\ ACTIVE_LYRICS_LOOP' = "True"
    /\ sess' = [sess EXCEPT ![s] = DoneSession]
    /\ obs' = [ObsAfterReturn(ObsAfterFlag(obs, s, "True"), s) EXCEPT ![s].raised = TRUE]
    /\ UNCHANGED << display, holder >>
    /\ SessionFrame

\* back at the loop test: n, media_timecode and total_sleep are assigned anew
\* before they are read again, pause_start and wake likewise
AtLoopTest(r) ==
    [r EXCEPT !.pc = "top", !.n = 0, !.media_timecode = 0, !.total_sleep = 0, !.wake = 0,
              !.pause_start = 0]

\* the intervals from n on that hold the projected offset (lyrics.py:301-302)
Matches(r) ==
    {m \in r.n .. (Len(r.timeline) - 1) : InInterval(r.timeline, m, r.media_timecode)}

\* lyrics.py:301-307: the for loop goes on from r.n to the next interval that
\* holds the offset and writes its lines (and awaits); with none left the
\* session is back at the loop test without having awaited
Scan(s, r, o) ==
    IF Matches(r) = {}
    THEN /\ sess' = [sess EXCEPT ![s] = AtLoopTest(r)]
         /\ obs' = o
         /\ holder' = s
         /\ UNCHANGED << ACTIVE_LYRICS_LOOP, display >>
    ELSE LET n == CHOOSE m \in Matches(r) : \A k \in Matches(r) : m <= k
             lines == Triple(r.lrc, n)
         IN /\ display' = lines
            /\ obs' = ObsAfterWrite(o, s, lines, TRUE)
            /\ sess' = [sess EXCEPT ![s] = [r EXCEPT !.pc = "L307", !.n = n]]
            /\ holder' = 0
            /\ UNCHANGED ACTIVE_LYRICS_LOOP

\* lyrics.py:292-297: the projection; past the last entry the session clears the
\* display (and awaits), else the for loop starts at n = 1
Project(s, r, o) ==
    LET mt == calculate_media_timecode(r.pos, r.updated_at, now)
    IN IF mt >= Py(r.timeline, Len(r.timeline) - 1)
       THEN /\ display' = Clear
            /\ obs' = ObsAfterWrite(ObsAfterProjection(o, s, mt), s, Clear, FALSE)
            /\ sess' = [sess EXCEPT ![s] = [r EXCEPT !.pc = "L296", !.media_timecode = mt]]
            /\ holder' = 0
            /\ UNCHANGED ACTIVE_LYRICS_LOOP
       ELSE Scan(s, [r EXCEPT !.media_timecode = mt, !.n = 1], ObsAfterProjection(o, s, mt))

\* lyrics.py:241-249 and 323-327: the loop test; on exit the flag is reset; a
\* paused player has the display cleared; else the projection follows
SessionTop(s) ==
    /\ holder = s
    /\ sess[s].pc = "top"
    /\ IF ~Truthy(ACTIVE_LYRICS_LOOP)
       THEN /\ ACTIVE_LYRICS_LOOP' = "None"
            /\ obs' = ObsAfterReturn(ObsAfterFlag(obs, s, "None"), s)
            /\ sess' = [sess EXCEPT ![s] = DoneSession]
            /\ holder' = 0
            /\ UNCHANGED display
       ELSE IF player.state = "paused"
       THEN /\ display' = Clear
            /\ obs' = ObsAfterWrite(obs, s, Clear, FALSE)
            /\ sess' = [sess EXCEPT ![s].pc = "pause", ![s].pause_start = now, ![s].wake = now]
            /\ holder' = 0
            /\ UNCHANGED ACTIVE_LYRICS_LOOP
       ELSE Project(s, sess[s], obs)
    /\ SessionFrame

\* lyrics.py:250-261: poll once a second while paused, then move updated_at on
\* by the length of the pause and project
SessionPausePoll(s) ==
    /\ holder = 0
    /\ sess[s].pc = "pause"
    /\ now >= sess[s].wake
    /\ IF player.state = "paused"
       THEN /\ sess' = [sess EXCEPT ![s].wake = now + PausePollMs]
            /\ UNCHANGED << ACTIVE_LYRICS_LOOP, display, obs, holder >>
       ELSE Project(s, [sess[s] EXCEPT !.updated_at = Some(Val(@) + (now - sess[s].pause_start))],
                    obs)
    /\ SessionFrame

\* SessionFinish without the assignment of line 327
SessionFinishMut(s) ==
    /\ holder = 0
    /\ sess[s].pc = "L296"
    /\ obs' = ObsAfterReturn(obs, s)
    /\ sess' = [sess EXCEPT ![s] = DoneSession]
    /\ UNCHANGED << ACTIVE_LYRICS_LOOP, display, holder >>
    /\ SessionFrame

\* lyrics.py:296-297 then 323-327: after the clear, leave the loop
SessionFinish(s) ==
    /\ holder = 0
    /\ sess[s].pc = "L296"
    /\ ACTIVE_LYRICS_LOOP' = "None"
    /\ obs' = ObsAfterReturn(ObsAfterFlag(obs, s, "None"), s)
    /\ sess' = [sess EXCEPT ![s] = DoneSession]
    /\ UNCHANGED << display, holder >>
    /\ SessionFrame

\* lyrics.py:313-320: one turn of the sleep loop: clear and break when the flag
\* is down, else sleep one increment
SleepTurn(s, r) ==
    IF ~Truthy(ACTIVE_LYRICS_LOOP)
    THEN /\ display' = Clear
         /\ obs' = ObsAfterWrite(obs, s, Clear, FALSE)
         /\ sess' = [sess EXCEPT ![s] = [r EXCEPT !.pc = "L316"]]
         /\ UNCHANGED << ACTIVE_LYRICS_LOOP, holder >>
    ELSE /\ sess' = [sess EXCEPT ![s] =
                        [r EXCEPT !.pc = "sleep", !.wake = now + Min(IntervalMs, r.total_sleep)]]
         /\ UNCHANGED << ACTIVE_LYRICS_LOOP, display, obs, holder >>

\* lyrics.py:309-314: after the lines are written, the time to the boundary
SessionAfterLine(s) ==
    /\ holder = 0
    /\ sess[s].pc = "L307"
    /\ LET sleep_time == Py(sess[s].timeline, sess[s].n) - sess[s].media_timecode
       IN SleepTurn(s, [sess[s] EXCEPT !.total_sleep = Max(IntervalMs, sleep_time)])
    /\ SessionFrame

\* lyrics.py:320-321 and 313: the increment has passed; when the sleep is used
\* up the for loop goes on
SessionWake(s) ==
    /\ holder = 0
    /\ sess[s].pc = "sleep"
    /\ now >= sess[s].wake
    /\ LET left == sess[s].total_sleep - IntervalMs
       IN IF left > 0
          THEN SleepTurn(s, [sess[s] EXCEPT !.total_sleep = left])
          ELSE Scan(s, [sess[s] EXCEPT !.total_sleep = left, !.n = sess[s].n + 1], obs)
    /\ SessionFrame

\* lyrics.py:316-317: after the clear, break out of the sleep loop; the for
\* loop goes on
SessionAfterInterrupt(s) ==
    /\ holder = 0
    /\ sess[s].pc = "L316"
    /\ Scan(s, [sess[s] EXCEPT !.n = sess[s].n + 1], obs)
    /\ SessionFrame

\* ------------------------------------------------------------ the lyrics engine
\* what the player may report as media_title, media_artist and
\* media_position_updated_at when the watcher reads them
Metadata ==
    {[title |-> <<Word("Song X"), Paren("(Live)"), Hyphen, Word("Remastered")>>,
      artist |-> "Artist Y"],
     [title |-> <<Paren("(Live)")>>, artist |-> "Artist Y"],
     [title |-> <<Word("Song X")>>, artist |-> ""]}
Updated == {None} \cup {Some(now - a) : a \in SnapshotAges}

NextLyrics ==
    \/ Tick
    \/ \E p \in PlayerReports : Notify(p.state, p.id)
    \/ handle_fetch_lyrics
    \/ \E m \in Metadata, upd \in Updated : monitor_playback(m.title, m.artist, upd)
    \/ \E artist \in Artists, p \in PlayOffsets : TaggingHandoff(SongX, artist, p)
    \/ \E s \in Sessions, en \in BOOLEAN : SessionBegin(s, en)
    \/ \E s \in Sessions, res \in SearchResults : SessionLoad(s, res)
    \/ \E s \in Sessions : SessionEntityMissing(s)
    \/ \E s \in Sessions : SessionSearchFault(s)
    \/ \E s \in Sessions : SessionTop(s)
    \/ \E s \in Sessions : SessionPausePoll(s)
    \/ \E s \in Sessions : SessionFinish(s)
    \/ \E s \in Sessions : SessionAfterLine(s)
    \/ \E s \in Sessions : SessionWake(s)
    \/ \E s \in Sessions : SessionAfterInterrupt(s)

SpecLyrics == Init /\ [][NextLyrics]_vars

\* --------------------------------------- one session, no watcher, a long clock
\* One session started by a tagging hand-off runs alone for up to MaxSoloTicks
\* increments, with no fetch_lyrics listener registered; the player pauses
\* once and resumes once.  probe is the stopwatch of the pause: the offset
\* projected at the instant the player paused (calculate_media_timecode of the
\* session's pos and updated_at at that instant) and, once it has resumed, the
\* instant of the resume, kept relative to the current instant.
DocLong == << Line(TRUE, 0, 0, "a"), Line(TRUE, 0, 3000, "b"), Line(TRUE, 0, 3500, "c") >>

SoloTick ==
    /\ \E s \in Sessions : Active(s)
    /\ Elapse(MaxSoloTicks)
    /\ probe' = IF probe.fn = "playback" /\ ~IsNone(probe.arg)
                THEN [probe EXCEPT !.arg = Some(Val(@) - IntervalMs)] ELSE probe
    /\ UNCHANGED spotifyVars

\* trigger_lyrics_lookup for the recognised song, once
SoloStart ==
    /\ started = 0
    /\ TaggingHandoff(SongX, "Artist Y", 0)

\* the player pauses while session s is in its loop
SoloPause(s) ==
    /\ InLoop(s)
    /\ probe.fn = "none"
    /\ HostReports("paused", player.id)
    /\ probe' = [fn |-> "playback", arg |-> None,
                 out |-> calculate_media_timecode(sess[s].pos, sess[s].updated_at, now)]
    /\ UNCHANGED spotifyVars

\* the player resumes
SoloResume ==
    /\ player.state = "paused"
    /\ HostReports("playing", player.id)
    /\ probe' = [probe EXCEPT !.arg = Some(now)]
    /\ UNCHANGED spotifyVars

NextSolo ==
    \/ SoloTick
    \/ SoloStart
    \/ \E s \in Sessions : SoloPause(s)
    \/ SoloResume
    \/ \E s \in Sessions : SessionBegin(s, TRUE)
    \/ \E s \in Sessions : SessionLoad(s, Some(DocLong))
    \/ \E s \in Sessions : SessionTop(s)
    \/ \E s \in Sessions : SessionPausePoll(s)
    \/ \E s \in Sessions : SessionFinish(s)
    \/ \E s \in Sessions : SessionAfterLine(s)
    \/ \E s \in Sessions : SessionWake(s)

SpecSolo == Init /\ [][NextSolo]_vars

\* ------------------------------------------- one session, playback uninterrupted
\* One session runs from its start to its end while the player keeps playing:
\* it is started by the watcher on the one notification of a new track
\* (position 0, lyrics.py:399) or by a tagging hand-off, and nothing cancels it.
\* The lyrics found are one of PlayDocs.
DocShort == << Line(TRUE, 0, 0, "a"), Line(TRUE, 0, 300, "b"), Line(TRUE, 0, 600, "c") >>
DocSingle == << Line(TRUE, 0, 500, "only") >>
DocLate == << Line(TRUE, 0, 400, "a"), Line(TRUE, 0, 700, "b") >>
DocDense == << Line(TRUE, 0, 0, "a"), Line(TRUE, 0, 50, "b"), Line(TRUE, 0, 600, "c") >>
PlayDocs == {DocShort, DocSingle, DocLate, DocDense, DocLong}

\* how long before the notification the host took the position snapshot
PlayAges == {0, 500}

\* the title and artist the player reports
PlayTitle == << Word("Song X") >>

\* the clock steps a playback is followed for: more than the longest of PlayDocs
\* takes from position 0 (3500 ms in steps of IntervalMs)
MaxPlayTicks == 40

\* the iteration a session runs from the loop test, with the player playing and
\* the flag up, exits or finds an interval, whose lines it writes and awaits
\* (lyrics.py:292-307)
ExitsOrMatches(r) ==
    LET mt == calculate_media_timecode(r.pos, r.updated_at, now)
    IN \/ mt >= Py(r.timeline, Len(r.timeline) - 1)
       \/ Matches([r EXCEPT !.media_timecode = mt, !.n = 1]) # {}

\* the clock moves while a session sleeps; the code between two awaits takes no
\* time, but a session that holds the event loop in iterations that find no
\* interval goes round until the clock has moved
PlayTick ==
    /\ \E s \in Sessions : Active(s)
    /\ holder # 0 => ~ExitsOrMatches(sess[holder])
    /\ Elapse(MaxPlayTicks)
    /\ UNCHANGED << pureVars, spotifyVars >>

\* the fetch_lyrics service is called before anything plays
PlayRequest == started = 0 /\ player.state # "playing" /\ handle_fetch_lyrics

\* the player starts the track: the one state change
PlayNotify == started = 0 /\ player.state # "playing" /\ Notify("playing", IdA)

\* the registered watcher runs for it
PlayWatcher == \E age \in PlayAges : monitor_playback(PlayTitle, "Artist Y", Some(now - age))

\* a tagging run hands the recognised song over, with nothing else started
PlayHandoff == started = 0 /\ TaggingHandoff(SongX, "Artist Y", 0)

\* a step of session s
PlaySession(s) ==
    \/ SessionBegin(s, TRUE)
    \/ \E doc \in PlayDocs : SessionLoad(s, Some(doc))
    \/ SessionTop(s)
    \/ SessionFinish(s)
    \/ SessionAfterLine(s)
    \/ SessionWake(s)

NextPlay ==
    \/ PlayTick
    \/ PlayRequest
    \/ PlayNotify
    \/ PlayWatcher
    \/ PlayHandoff
    \/ \E s \in Sessions : SessionBegin(s, TRUE)
    \/ \E s \in Sessions, doc \in PlayDocs : SessionLoad(s, Some(doc))
    \/ \E s \in Sessions : SessionTop(s)
    \/ \E s \in Sessions : SessionFinish(s)
    \/ \E s \in Sessions : SessionAfterLine(s)
    \/ \E s \in Sessions : SessionWake(s)

SpecPlay == Init /\ [][NextPlay]_vars

\* the wall clock advances and the event loop runs what is ready: a callback
\* that is due, a task that can go on
SpecPlayLive ==
    /\ SpecPlay
    /\ WF_vars(PlayTick)
    /\ WF_vars(PlayWatcher)
    /\ \A s \in Sessions : WF_vars(PlaySession(s))

\* ------------------------------------------------------------ tagging.py
\* what a tagging step leaves alone of the lyrics engine
TaggingFrame ==
    UNCHANGED << ACTIVE_LYRICS_LOOP, LAST_MEDIA_CONTENT_ID, player, listeners, pendingCb, holder,
                 pureVars, spotifyVars >>

\* the service schema, tagging.py:37-40: duration is an integer in 1..60
Durations == {d \in {1, MAX_TOTAL_DURATION, MAX_TOTAL_DURATION + 1} : MinDuration <= d /\ d <= MaxDuration}

\* what recognize_audio may return (tagging.py:132-135): the parsed response with
\* its status message, whether metadata.music is there, and the matches; None
\* stands for a recognition that raised
Match(title, artist, play_offset_ms) ==
    [title |-> title, artist |-> artist, play_offset_ms |-> play_offset_ms]
Responses ==
    {None}
    \cup {Some([msg |-> "Success", hasMusic |-> TRUE, music |-> <<Match(SongX, a, p)>>]) :
             a \in Artists, p \in PlayOffsets}
    \cup {Some([msg |-> "Success", hasMusic |-> TRUE, music |-> <<>>]),
          Some([msg |-> "No result", hasMusic |-> FALSE, music |-> <<>>])}

\* the response has the status message Success and holds a match
HoldsMatch(response) ==
    ~IsNone(response) /\ Val(response).msg = "Success" /\ Val(response).music # <<>>

\* process_audio_chunk, tagging.py:131-150: <<response_data, is_success>>
process_audio_chunk(response) ==
    IF IsNone(response) THEN [response_data |-> None, is_success |-> FALSE]
    ELSE [response_data |-> response,
          is_success |-> Val(response).msg = "Success" /\ Val(response).hasMusic]

\* tagging.py:212
TotalChunks(max_duration) == max_duration \div CHUNK_DURATION

\* tagging.py:217 and 228-233: after an attempt, the next chunk or the end of the
\* loop (AfterAttemptMut: the loop without its break)
AfterAttemptMut(is_success, i, total_chunks) ==
    IF i + 1 < total_chunks THEN "L221" ELSE "L236"
AfterAttempt(is_success, i, total_chunks) ==
    IF is_success THEN "L236" ELSE IF i + 1 < total_chunks THEN "L221" ELSE "L236"

\* pcs inside the try block of listen_for_audio (tagging.py:201-263)
TryPcs == {"L206", "L221", "L128", "L236", "L244", "L246", "L263"}

\* TaggingService.stop, tagging.py:275-278: the flag goes down (and the socket is
\* closed); nothing in listen_for_audio reads the flag
stop(rs, r) == IF r = 0 THEN rs ELSE [rs EXCEPT ![r].running = FALSE]

\* handle_fetch_audio_tag, tagging.py:281-297, up to the first await of
\* listen_for_audio (tagging.py:203): the earlier instance is stopped, the new
\* one stored, the placeholder written
handle_fetch_audio_tag(duration, include_lyrics) ==
    /\ tagging_service < MaxRuns
    /\ LET r == tagging_service + 1
       IN /\ run' = [stop(run, tagging_service) EXCEPT ![r] =
                        [IdleRun EXCEPT !.pc = "L206", !.max_duration = duration,
                                        !.include_lyrics = include_lyrics, !.running = TRUE]]
          /\ tagging_service' = r
    /\ display' = Listening
    /\ UNCHANGED << switch, tagging_result, sess, started, obs >>
    /\ TaggingFrame

\* tagging.py:206-217: the switch is turned on, the chunk budget computed; with
\* no chunk to do the loop is skipped
RunSwitchOn(r) ==
    /\ run[r].pc = "L206"
    /\ switch' = "on"
    /\ LET total_chunks == TotalChunks(run[r].max_duration)
       IN run' = [run EXCEPT ![r].total_chunks = total_chunks, ![r].i = 0,
                             ![r].pc = IF 0 < total_chunks THEN "L221" ELSE "L236"]
    /\ UNCHANGED << tagging_service, tagging_result, display, sess, started, obs >>
    /\ TaggingFrame

\* tagging.py:221-225 and 128: one chunk has been received and is written to file
RunRecorded(r) ==
    /\ run[r].pc = "L221"
    /\ run' = [run EXCEPT ![r].recorded = @ + 1, ![r].pc = "L128"]
    /\ UNCHANGED << switch, tagging_service, tagging_result, display, sess, started, obs >>
    /\ TaggingFrame

\* tagging.py:131-150 and 225-233: the chunk is submitted; a success ends the loop
RunRecognised(r, response) ==
    /\ run[r].pc = "L128"
    /\ LET res == process_audio_chunk(response)
       IN run' = [run EXCEPT
                     ![r].attempts = @ + 1,
                     ![r].success = res.is_success,
                     ![r].matched = @ \/ HoldsMatch(response),
                     ![r].response = IF res.is_success THEN res.response_data ELSE None,
                     ![r].i = IF res.is_success THEN @ ELSE @ + 1,
                     ![r].pc = AfterAttempt(res.is_success, run[r].i, run[r].total_chunks)]
    /\ UNCHANGED << switch, tagging_service, tagging_result, display, sess, started, obs >>
    /\ TaggingFrame

\* tagging.py:236-244: the switch is turned off; then the result is handled
RunSwitchOff(r) ==
    /\ run[r].pc = "L236"
    /\ switch' = "off"
    /\ run' = [run EXCEPT ![r].turnedOff = TRUE,
                          ![r].pc = IF run[r].success THEN "L244" ELSE "L246"]
    /\ UNCHANGED << tagging_service, tagging_result, display, sess, started, obs >>
    /\ TaggingFrame

\* handle_successful_match, tagging.py:152-197, called at line 244.  music[0] of
\* an empty list raises (line 154).  Two notifications are created (166, 182).  The hand-off awaits what
\* trigger_lyrics_lookup returns, which is None: that raises after the call, and
\* the run goes on in its except block.  The response is not read again
RunHandleMatch(r) ==
    /\ run[r].pc = "L244"
    /\ LET music == Val(run[r].response).music
       IN IF music = <<>>
          THEN /\ run' = [run EXCEPT ![r].pc = "L265", ![r].response = None]
               /\ UNCHANGED << tagging_result, display, sess, started, obs >>
          ELSE LET first_match == music[1]
                   handsOver == run[r].include_lyrics /\ first_match.title # <<>>
                                    /\ first_match.artist # ""
               IN /\ tagging_result' = "summary"
                  /\ display' = Clear
                  /\ LyricsHandoff(first_match.title, first_match.artist,
                                   first_match.play_offset_ms, run[r].include_lyrics)
                  /\ run' = [run EXCEPT ![r].pc = IF handsOver THEN "L265" ELSE "L263",
                                        ![r].response = None, ![r].notifications = @ + 2]
    /\ UNCHANGED << switch, tagging_service >>
    /\ TaggingFrame

\* tagging.py:246-260: no chunk matched; the sensor is set, one notification
\* created, the display cleared
RunNoMatch(r) ==
    /\ run[r].pc = "L246"
    /\ tagging_result' = "No match"
    /\ display' = Clear
    /\ run' = [run EXCEPT ![r].pc = "L263", ![r].notifications = @ + 1]
    /\ UNCHANGED << switch, tagging_service, sess, started, obs >>
    /\ TaggingFrame

\* tagging.py:263: switch.tag_enable is set off and the run returns
RunEnd(r) ==
    /\ run[r].pc = "L263"
    /\ run' = [run EXCEPT ![r].pc = "done"]
    /\ UNCHANGED << switch, tagging_service, tagging_result, display, sess, started, obs >>
    /\ TaggingFrame

\* an await of the try block raises (a service call, the file write)
RunFault(r) ==
    /\ run[r].pc \in TryPcs \ {"L263"}
    /\ run' = [run EXCEPT ![r].pc = "L265", ![r].response = None]
    /\ UNCHANGED << switch, tagging_service, tagging_result, display, sess, started, obs >>
    /\ TaggingFrame

\* tagging.py:265-273: the except block turns the switch off and the run returns
RunExcept(r) ==
    /\ run[r].pc = "L265"
    /\ switch' = "off"
    /\ run' = [run EXCEPT ![r].turnedOff = TRUE, ![r].pc = "done"]
    /\ UNCHANGED << tagging_service, tagging_result, display, sess, started, obs >>
    /\ TaggingFrame

NextTagging ==
    \/ \E d \in Durations, include_lyrics \in BOOLEAN : handle_fetch_audio_tag(d, include_lyrics)
    \/ \E r \in Runs : RunSwitchOn(r)
    \/ \E r \in Runs : RunRecorded(r)
    \/ \E r \in Runs, response \in Responses : RunRecognised(r, response)
    \/ \E r \in Runs : RunSwitchOff(r)
    \/ \E r \in Runs : RunHandleMatch(r)
    \/ \E r \in Runs : RunNoMatch(r)
    \/ \E r \in Runs : RunEnd(r)
    \/ \E r \in Runs : RunFault(r)
    \/ \E r \in Runs : RunExcept(r)

SpecTagging == Init /\ [][NextTagging]_vars

\* ------------------------------------------------ the pure functions, called alone
\* a call of a pure function changes nothing of the program's state
PureFrame == UNCHANGED << lyricsVars, tagVars, spotifyVars >>

\* positions in ms, and position timestamps relative to the current instant
Positions == {None, Some(0), Some(30000), Some(45000)}
UpdatedAts == {None, Unparsable, Some(0), Some(-1900), Some(-5000), Some(-5004), Some(-5006)}

\* calculate_media_timecode(pos, updated), lyrics.py:57-73
CallTimecode(pos, updated) ==
    /\ probe' = [fn |-> "calculate_media_timecode", arg |-> <<pos, updated>>,
                 out |-> calculate_media_timecode(pos, updated, now)]
    /\ PureFrame

\* what hass.states.get(entity_id) may return: None for an entity that does
\* not exist, or the state of the player
EntityStates ==
    {None, Some([state |-> "idle", id |-> IdNone]), Some([state |-> "playing", id |-> IdA])}

\* get_media_player_info(hass, entity_id), lyrics.py:123-153
CallPlayerInfo(player_state, media_title, media_artist, updated_at) ==
    /\ probe' = [fn |-> "get_media_player_info",
                 arg |-> <<player_state, media_title, media_artist, updated_at>>,
                 out |-> get_media_player_info(player_state, media_title, media_artist,
                                               updated_at)]
    /\ PureFrame

\* the lines of a lyrics text, and the texts of up to MaxLines lines
Lines ==
    {Line(TRUE, 0, 1000, "a"), Line(TRUE, 0, 2000, "b"), Line(TRUE, 1, 0, "c"),
     Line(TRUE, 0, 2010, "d"), Line(TRUE, 45, 0, "late"),
     Line(TRUE, 0, 1500, ""), Line(FALSE, 0, 0, "x"), BadLine("bad"), OverflowLine("inf")}
Docs == UNION {[1..k -> Lines] : k \in 0..MaxLines}

\* lyricSplit(lyrics), lyrics.py:21-55
CallLyricSplit(doc) ==
    /\ probe' = [fn |-> "lyricSplit", arg |-> doc, out |-> lyricSplit(doc)]
    /\ PureFrame

\* 'Song (Remastered 2011) - From "Movie" Soundtrack'
ExampleTitle ==
    << Word("Song"), Paren("(Remastered 2011)"), Hyphen, Word("From \"Movie\" Soundtrack") >>

\* titles: words, annotations in brackets and hyphens in several orders
Titles ==
    {ExampleTitle, <<>>, << Word("Song") >>, << Paren("(Live)") >>,
     << Word("Spider"), Hyphen, Word("Man") >>,
     << Word("Song"), Paren("[Remastered]"), Word("Two") >>,
     << Word("One"), Hyphen, Word("Two"), Hyphen, Paren("(Edit)"), Word("Three") >>,
     << Paren("(Intro)"), Word("Song"), Hyphen, Word("Live") >>}

\* clean_track_name(track), lyrics.py:81-105
CallCleanTrackName(track) ==
    /\ probe' = [fn |-> "clean_track_name", arg |-> track, out |-> clean_track_name(track)]
    /\ PureFrame

NextPure ==
    \/ \E track \in Titles : CallCleanTrackName(track)
    \/ \E doc \in Docs : CallLyricSplit(doc)
    \/ \E e \in EntityStates, m \in Metadata, upd \in Updated :
          CallPlayerInfo(e, m.title, m.artist, upd)
    \/ \E pos \in Positions, updated \in UpdatedAts : CallTimecode(pos, updated)

SpecPure == Init /\ [][NextPure]_vars

\* ------------------------------------------------------------- spotify.py
\* The coroutines of the service are exchange_code, called by the
\* authorization callback (spotify.py:68), and add_track_to_playlist, called by
\* the add_to_spotify handler (spotify.py:536).  Each runs from one await to the
\* next; the awaits are the HTTP requests and the save to the store.  A
\* notification is created where the code calls persistent_notification.create.
\* One track is asked for; playlist counts its copies in the playlist.
Calls == 1..MaxCalls

\* seconds by which the loop clock advances in one step
ClockStep == 150

\* what the token endpoint may answer
AccessTokens == {"a1", "a2"}
RefreshTokens == {"r1"}
ExpiresIn == {450}

\* what a request or a save may come back with: done, an HTTP error status,
\* or an exception
Outcomes == {"ok", "status", "raise"}

\* the payload save_tokens builds, spotify.py:128-133
TokenData(svc) ==
    [access_token |-> svc.access_token, refresh_token |-> svc.refresh_token,
     expires_at |-> svc.expires_at]

\* the coroutine returns value: its locals are gone
Returns(st, value) ==
    [st EXCEPT !.c.pc = "done", !.c.result = value, !.c.ret = "none", !.c.after = "none",
               !.c.success = FALSE, !.c.total = 0]

\* hass.services.async_call("persistent_notification", "create", ...)
CreatesNotification(st) == [st EXCEPT !.c.notified = TRUE]

\* a mutant of refresh_access_token: a token with exactly the margin left counts as valid
refresh_access_tokenMut(st) ==
    IF IsNone(st.svc.refresh_token)
    THEN [st EXCEPT !.svc.authorized = FALSE, !.c.pc = st.c.ret, !.c.refresh = "no_token"]
    ELSE IF st.svc.expires_at >= clock + RefreshMargin
    THEN [st EXCEPT !.svc.authorized = TRUE, !.c.pc = st.c.ret, !.c.refresh = "valid"]
    ELSE [st EXCEPT !.c.pc = "refresh_post", !.c.refresh = "requested"]

\* refresh_access_token up to its request, spotify.py:191-211
refresh_access_token(st) ==
    IF IsNone(st.svc.refresh_token)
    THEN [st EXCEPT !.svc.authorized = FALSE, !.c.pc = st.c.ret, !.c.refresh = "no_token"]
    ELSE IF st.svc.expires_at > clock + RefreshMargin
    THEN [st EXCEPT !.svc.authorized = TRUE, !.c.pc = st.c.ret, !.c.refresh = "valid"]
    ELSE [st EXCEPT !.c.pc = "refresh_post", !.c.refresh = "requested"]

\* refresh_access_token called for itself returns True where it marks the
\* service authorized and False where it marks it unauthorized,
\* spotify.py:195-196, 200-201, 216-217, 228-229, 233-234
refresh_returned(st) == Returns(st, IF st.svc.authorized THEN "True" ELSE "False")

\* _create_playlist, spotify.py:253-256: it refreshes the token first
_create_playlist(st) ==
    [st EXCEPT !.c.ret = "create_refreshed", !.c.pc = "refresh_access_token"]

\* _create_playlist after the refresh, spotify.py:256-275
create_refreshed(st) ==
    IF ~st.svc.authorized
    THEN [st EXCEPT !.c.success = FALSE, !.c.pc = st.c.after]
    ELSE [st EXCEPT !.c.pc = "create_post"]

\* exchange_code after _create_playlist, spotify.py:186
exchange_created(st) == Returns(st, "True")

\* add_track_to_playlist from its first line, spotify.py:394-423
add_track_to_playlist(st) ==
    IF ~st.svc.authorized
    THEN Returns(CreatesNotification(st), "False")
    ELSE IF IsNone(st.svc.playlist_id)
    THEN IF st.svc.create_playlist
         THEN [st EXCEPT !.c.after = "add_created", !.c.pc = "create_playlist"]
         ELSE Returns(st, "False")
    ELSE [st EXCEPT !.c.pc = "search_track"]

\* add_track_to_playlist after _create_playlist, spotify.py:414-417
add_created(st) ==
    IF ~st.c.success THEN Returns(st, "False") ELSE [st EXCEPT !.c.pc = "search_track"]

\* search_track, spotify.py:300-302
search_track(st) ==
    [st EXCEPT !.c.ret = "search_refreshed", !.c.pc = "refresh_access_token"]

\* add_track_to_playlist with no track URI, spotify.py:424-436
TrackNotFound(st) == Returns(CreatesNotification(st), "False")

\* search_track after the refresh, spotify.py:303-321
search_refreshed(st) ==
    IF ~st.svc.authorized THEN TrackNotFound(st) ELSE [st EXCEPT !.c.pc = "search_get"]

\* check_track_in_playlist, spotify.py:338-340
check_track_in_playlist(st) ==
    [st EXCEPT !.c.ret = "check_refreshed", !.c.pc = "refresh_access_token"]

\* add_track_to_playlist with in_playlist False: the add request is sent,
\* spotify.py:455-468
NotInPlaylist(st) == [st EXCEPT !.c.pc = "add_post"]

\* add_track_to_playlist with in_playlist True, spotify.py:442-453
InPlaylist(st) == Returns(CreatesNotification(st), "True")

\* check_track_in_playlist after the refresh, spotify.py:341-351
check_refreshed(st) ==
    IF ~st.svc.authorized \/ IsNone(st.svc.playlist_id)
    THEN NotInPlaylist(st)
    ELSE [st EXCEPT !.c.pc = "check_info"]

\* the code of a coroutine from where it stands to its next await or its return
RECURSIVE Advance(_)
Advance(st) ==
    CASE st.c.pc = "refresh_access_token" -> Advance(refresh_access_token(st))
      [] st.c.pc = "refresh_returned" -> Advance(refresh_returned(st))
      [] st.c.pc = "create_playlist" -> Advance(_create_playlist(st))
      [] st.c.pc = "create_refreshed" -> Advance(create_refreshed(st))
      [] st.c.pc = "exchange_created" -> Advance(exchange_created(st))
      [] st.c.pc = "add_track_to_playlist" -> Advance(add_track_to_playlist(st))
      [] st.c.pc = "add_created" -> Advance(add_created(st))
      [] st.c.pc = "search_track" -> Advance(search_track(st))
      [] st.c.pc = "search_refreshed" -> Advance(search_refreshed(st))
      [] st.c.pc = "check_track_in_playlist" -> Advance(check_track_in_playlist(st))
      [] st.c.pc = "check_refreshed" -> Advance(check_refreshed(st))
      [] OTHER -> st

\* what the claims observe of a step (refresh, saved) is kept until the next step
Unobserved(call) == [call EXCEPT !.refresh = "none", !.saved = FALSE]

\* coroutine c as it takes its next step
At(c) == [svc |-> spotify_service, c |-> Unobserved(calls[c])]

\* coroutine c runs on from st to its next await or its return
Resume(c, st) ==
    /\ spotify_service' = Advance(st).svc
    /\ calls' = [k \in Calls |-> IF k = c THEN Advance(st).c ELSE Unobserved(calls[k])]

\* a step of the Spotify service leaves the lyrics engine and the tagging runs alone
SpotifyFrame == UNCHANGED << lyricsVars, tagVars, pureVars >>

Free(c) == calls[c].pc \in {"idle", "done"}

\* the loop clock advances
SpotifyTick ==
    /\ clock < MaxClockSteps * ClockStep
    /\ clock' = clock + ClockStep
    /\ calls' = [k \in Calls |-> Unobserved(calls[k])]
    /\ UNCHANGED << spotify_service, store, playlist >>
    /\ SpotifyFrame

\* SpotifyAuthView.get calls exchange_code(code): the token request is sent,
\* spotify.py:68, 150-163
StartExchange(c) ==
    /\ Free(c)
    /\ Resume(c, [svc |-> spotify_service,
                  c |-> [IdleCall EXCEPT !.kind = "exchange", !.pc = "exchange_post"]])
    /\ UNCHANGED << store, clock, playlist >>
    /\ SpotifyFrame

\* exchange_code, the answer to the token request, spotify.py:163-175
ExchangeResponse(c, outcome, access, refresh, expires_in) ==
    /\ calls[c].pc = "exchange_post"
    /\ IF outcome = "ok"
       THEN Resume(c, [At(c) EXCEPT !.svc.access_token = Some(access),
                                    !.svc.refresh_token = Some(refresh),
                                    !.svc.expires_at = expires_in + clock,
                                    !.c.pc = "exchange_user"])
       ELSE Resume(c, Returns(At(c), "False"))
    /\ UNCHANGED << store, clock, playlist >>
    /\ SpotifyFrame

\* exchange_code, _fetch_user_info has ended, with the user's id or without,
\* and save_tokens builds its payload, spotify.py:175-178, 236-251, 126-134
ExchangeUser(c) ==
    /\ calls[c].pc = "exchange_user"
    /\ Resume(c, [At(c) EXCEPT !.c.data = Some(TokenData(spotify_service)),
                               !.c.pc = "exchange_save"])
    /\ UNCHANGED << store, clock, playlist >>
    /\ SpotifyFrame

\* exchange_code, the save has ended, spotify.py:178-189
ExchangeSaved(c, outcome) ==
    /\ calls[c].pc = "exchange_save"
    /\ IF outcome = "ok"
       THEN /\ store' = calls[c].data
            /\ Resume(c, [At(c) EXCEPT
                            !.svc.authorized = TRUE,
                            !.c.saved = TRUE,
                            !.c.data = None,
                            !.c.after = "exchange_created",
                            !.c.pc = IF IsNone(spotify_service.playlist_id)
                                        /\ spotify_service.create_playlist
                                     THEN "create_playlist" ELSE "exchange_created"])
       ELSE /\ UNCHANGED store
            /\ Resume(c, Returns([At(c) EXCEPT !.c.data = None], "False"))
    /\ UNCHANGED << clock, playlist >>
    /\ SpotifyFrame

\* refresh_access_token, the answer to the token request, spotify.py:208-224;
\* refresh is the refresh token of the answer, or None when it has none
RefreshResponse(c, outcome, access, refresh, expires_in) ==
    /\ calls[c].pc = "refresh_post"
    /\ IF outcome = "ok"
       THEN LET st == [At(c) EXCEPT
                         !.svc.access_token = Some(access),
                         !.svc.expires_at = expires_in + clock,
                         !.svc.refresh_token = IF IsNone(refresh) THEN @ ELSE refresh]
            IN Resume(c, [st EXCEPT !.c.data = Some(TokenData(st.svc)),
                                    !.c.pc = "refresh_save"])
       ELSE Resume(c, [At(c) EXCEPT !.svc.authorized = FALSE, !.c.refresh = "failed",
                                    !.c.pc = calls[c].ret])
    /\ UNCHANGED << store, clock, playlist >>
    /\ SpotifyFrame

\* refresh_access_token, the save has ended, spotify.py:224-234
RefreshSaved(c, outcome) ==
    /\ calls[c].pc = "refresh_save"
    /\ IF outcome = "ok"
       THEN /\ store' = calls[c].data
            /\ Resume(c, [At(c) EXCEPT !.svc.authorized = TRUE, !.c.saved = TRUE,
                                       !.c.refresh = "refreshed",
                                       !.c.data = None, !.c.pc = calls[c].ret])
       ELSE /\ UNCHANGED store
            /\ Resume(c, [At(c) EXCEPT !.svc.authorized = FALSE, !.c.refresh = "failed",
                                       !.c.data = None, !.c.pc = calls[c].ret])
    /\ UNCHANGED << clock, playlist >>
    /\ SpotifyFrame

\* _create_playlist, the answer to the request, spotify.py:271-298: the new
\* playlist is empty
CreateResponse(c, outcome) ==
    /\ calls[c].pc = "create_post"
    /\ IF outcome = "ok"
       THEN /\ playlist' = 0
            /\ Resume(c, [CreatesNotification(At(c)) EXCEPT
                            !.svc.playlist_id = Some("p"),
                            !.c.success = TRUE, !.c.pc = calls[c].after])
       ELSE /\ UNCHANGED playlist
            /\ Resume(c, [At(c) EXCEPT !.c.success = FALSE, !.c.pc = calls[c].after])
    /\ UNCHANGED << store, clock >>
    /\ SpotifyFrame

\* handle_add_to_spotify calls add_track_to_playlist(title, artist), spotify.py:536
StartAdd(c) ==
    /\ Free(c)
    /\ Resume(c, [svc |-> spotify_service,
                  c |-> [IdleCall EXCEPT !.kind = "add", !.pc = "add_track_to_playlist"]])
    /\ UNCHANGED << store, clock, playlist >>
    /\ SpotifyFrame

\* search_track, the answer to the search, spotify.py:318-336, and
\* add_track_to_playlist 424-438; "empty" is an answer with no item
SearchResponse(c, outcome) ==
    /\ calls[c].pc = "search_get"
    /\ IF outcome = "ok"
       THEN Resume(c, [At(c) EXCEPT !.c.pc = "check_track_in_playlist"])
       ELSE Resume(c, TrackNotFound(At(c)))
    /\ UNCHANGED << store, clock, playlist >>
    /\ SpotifyFrame

\* check_track_in_playlist, the answer with the playlist's total, spotify.py:347-363
CheckInfoResponse(c, outcome) ==
    /\ calls[c].pc = "check_info"
    /\ IF outcome = "ok" /\ playlist > 0
       THEN Resume(c, [At(c) EXCEPT !.c.total = playlist, !.c.pc = "check_tracks"])
       ELSE Resume(c, NotInPlaylist(At(c)))
    /\ UNCHANGED << store, clock, playlist >>
    /\ SpotifyFrame

\* check_track_in_playlist, the answer with a batch of tracks, spotify.py:369-392
CheckTracksResponse(c, outcome) ==
    /\ calls[c].pc = "check_tracks"
    /\ IF outcome = "ok" /\ playlist > 0
       THEN Resume(c, InPlaylist([At(c) EXCEPT !.c.total = 0]))
       ELSE Resume(c, NotInPlaylist([At(c) EXCEPT !.c.total = 0]))
    /\ UNCHANGED << store, clock, playlist >>
    /\ SpotifyFrame

\* add_track_to_playlist, the answer to the add request, spotify.py:458-511
AddResponse(c, outcome) ==
    /\ calls[c].pc = "add_post"
    /\ IF outcome = "ok"
       THEN /\ playlist < MaxCopies
            /\ playlist' = playlist + 1
            /\ Resume(c, Returns(CreatesNotification(At(c)), "True"))
       ELSE /\ UNCHANGED playlist
            /\ Resume(c, Returns(CreatesNotification(At(c)), "False"))
    /\ UNCHANGED << store, clock >>
    /\ SpotifyFrame

NextSpotify ==
    \/ SpotifyTick
    \/ \E c \in Calls : StartExchange(c)
    \/ \E c \in Calls, outcome \in Outcomes, access \in AccessTokens,
          refresh \in RefreshTokens, expires_in \in ExpiresIn :
          ExchangeResponse(c, outcome, access, refresh, expires_in)
    \/ \E c \in Calls : ExchangeUser(c)
    \/ \E c \in Calls, outcome \in {"ok", "raise"} : ExchangeSaved(c, outcome)
    \/ \E c \in Calls, outcome \in Outcomes, access \in AccessTokens,
          refresh \in {None} \cup {Some(r) : r \in RefreshTokens}, expires_in \in ExpiresIn :
          RefreshResponse(c, outcome, access, refresh, expires_in)
    \/ \E c \in Calls, outcome \in {"ok", "raise"} : RefreshSaved(c, outcome)
    \/ \E c \in Calls, outcome \in Outcomes : CreateResponse(c, outcome)
    \/ \E c \in Calls : StartAdd(c)
    \/ \E c \in Calls, outcome \in Outcomes \cup {"empty"} : SearchResponse(c, outcome)
    \/ \E c \in Calls, outcome \in Outcomes : CheckInfoResponse(c, outcome)
    \/ \E c \in Calls, outcome \in Outcomes : CheckTracksResponse(c, outcome)
    \/ \E c \in Calls, outcome \in Outcomes : AddResponse(c, outcome)

\* the service under each configuration of playlist_id and create_playlist
InitSpotify ==
    InitHost /\ \E id \in {None, Some("p")}, create \in BOOLEAN : InitService(id, create)

SpecSpotify == InitSpotify /\ [][NextSpotify]_vars

\* -------------------------------------------- refresh_access_token, called alone
\* load_tokens, spotify.py:112-124: the fields take what the store holds
load_tokens(svc, data) ==
    IF IsNone(data) THEN svc
    ELSE [svc EXCEPT !.access_token = Val(data).access_token,
                     !.refresh_token = Val(data).refresh_token,
                     !.expires_at = Val(data).expires_at]

\* what the store may hold when the service is constructed
StoredData ==
    {None} \cup {Some([access_token |-> Some(a), refresh_token |-> Some(r), expires_at |-> e]) :
                    a \in AccessTokens, r \in RefreshTokens, e \in {450, 600}}

\* the service after __init__ and load_tokens, at any time of the loop clock
InitRefresh ==
    /\ InitHost
    /\ \E data \in StoredData, steps \in 0..MaxClockSteps :
          /\ store = data
          /\ spotify_service = load_tokens(SpotifyService(None, TRUE), data)
          /\ clock = steps * ClockStep
    /\ playlist = 0
    /\ calls = [c \in Calls |-> IdleCall]

\* refresh_access_token is called, spotify.py:191
CallRefresh(c) ==
    /\ Free(c)
    /\ Resume(c, [svc |-> spotify_service,
                  c |-> [IdleCall EXCEPT !.kind = "refresh", !.ret = "refresh_returned",
                                         !.pc = "refresh_access_token"]])
    /\ UNCHANGED << store, clock, playlist >>
    /\ SpotifyFrame

NextRefresh ==
    \/ SpotifyTick
    \/ \E c \in Calls : CallRefresh(c)
    \/ \E c \in Calls, outcome \in Outcomes, access \in AccessTokens,
          refresh \in {None} \cup {Some(r) : r \in RefreshTokens}, expires_in \in ExpiresIn :
          RefreshResponse(c, outcome, access, refresh, expires_in)
    \/ \E c \in Calls, outcome \in {"ok", "raise"} : RefreshSaved(c, outcome)

SpecRefresh == InitRefresh /\ [][NextRefresh]_vars

\* ------------------------------------------------------------ properties
\* steps of session s, told by its position before and after
WritesLine(s) == sess[s].pc # "L307" /\ sess'[s].pc = "L307"
WritesDisplay(s) ==
    sess'[s].pc # sess[s].pc /\ sess'[s].pc \in {"L307", "L316", "L296", "pause"}
\* s tests the flag (at the loop test or in a sleep turn), finds it set and goes on
PassesFlagTest(s) ==
    \/ sess[s].pc = "top" /\ sess'[s].pc \in {"pause", "L296", "L307"}
    \/ sess[s].pc = "L307" /\ sess'[s].pc = "sleep"
    \/ sess[s].pc = "sleep" /\ sess'[s].pc = "sleep" /\ sess'[s].total_sleep # sess[s].total_sleep
\* a registered monitor_playback callback runs
WatcherRuns == pendingCb' < pendingCb

\* C1: a session that was in its display loop when a later session was started
\* leaves the loop at its next test of the flag: it never again finds the flag set
\* and goes on displaying alongside the new session.
C1_SupersededLeaves ==
    [][\A s \in Sessions : obs[s].superseded /\ InLoop(s) => ~PassesFlagTest(s)]_vars

\* C2: once the flag has been set to False or None for a session in its display
\* loop, that session writes no further lyric line before it exits.
C2_NoLineAfterCancel ==
    [][\A s \in Sessions : obs[s].cancelled /\ InLoop(s) => ~WritesLine(s)]_vars

\* C3: once the session that replaced it has written its first lyric line, the
\* earlier session performs no further display write.
C3_OldSilentAfterNewLine ==
    [][\A s, t \in Sessions :
          s < t /\ obs[s].superseded /\ InLoop(s) /\ obs[t].wroteLine => ~WritesDisplay(s)]_vars

\* C4: a session that has left its display loop made a clear of the three slots
\* its last display write.
C4_LastWriteIsClear ==
    \A s \in Sessions :
        sess[s].pc = "done" /\ obs[s].enteredLoop => obs[s].lastWrite = "clear"

\* C5 (as stated): a watcher run on a radio-class content id starts no session,
\* records the id as last-processed and sets the flag to None, whatever the state.
C5_RadioAlwaysRecorded ==
    [][WatcherRuns /\ player.id = IdR =>
          /\ started' = started /\ sess' = sess
          /\ ACTIVE_LYRICS_LOOP' = "None"
          /\ LAST_MEDIA_CONTENT_ID' = Some(IdR)]_vars

\* C5 (amended): a watcher run on a radio-class content id starts no session and
\* sets the flag to None; it records the id as last-processed when the reported
\* state is playing, and leaves the last-processed id as it was otherwise.
C5_RadioNeverStarts ==
    [][WatcherRuns /\ player.id = IdR =>
          /\ started' = started /\ sess' = sess
          /\ ACTIVE_LYRICS_LOOP' = "None"
          /\ LAST_MEDIA_CONTENT_ID' =
                IF player.state = "playing" THEN Some(IdR) ELSE LAST_MEDIA_CONTENT_ID]_vars

\* C5 witness: the watcher has run on a playing radio id while a session was in
\* its loop: the session is cancelled, the id recorded, the flag None.
C5_Witness ==
    /\ player = [state |-> "playing", id |-> IdR]
    /\ listeners > 0 /\ pendingCb = 0
    /\ LAST_MEDIA_CONTENT_ID = Some(IdR) /\ ACTIVE_LYRICS_LOOP = "None"
    /\ \E s \in Sessions : InLoop(s) /\ obs[s].cancelled

C10_DisplayTriple ==
    [][\A s \in Sessions : WritesLine(s) =>
          LET r == sess'[s]
              n == r.n
              x == r.media_timecode
          IN /\ n \in 1 .. (Len(r.timeline) - 1)
             /\ r.timeline[n] <= x /\ x <= r.timeline[n + 1]
             /\ display' = << IF n = 1 THEN "" ELSE r.lrc[n - 1], r.lrc[n], r.lrc[n + 1] >>
             /\ r.timeline = <<0, 1000, 2000>> /\ r.lrc = <<"a", "b", "c">> =>
                   /\ x = 500 => display' = <<"", "a", "b">>
                   /\ x = 1500 => display' = <<"a", "b", "c">>]_vars

\* C10 witness: a session has just written (a,b,c) for a projected offset of
\* 1500 ms on the timeline [0,1000,2000].
C10_Witness ==
    \E s \in Sessions :
        /\ sess[s].pc = "L307" /\ sess[s].media_timecode = 1500
        /\ sess[s].timeline = <<0, 1000, 2000>> /\ sess[s].n = 2
        /\ display = <<"a", "b", "c">>

\* C6: a tagging run makes at most max_duration / chunk_duration recognition
\* attempts (4 for max_duration = 12) and records no more chunks than that; once
\* an attempt has succeeded the run is past its chunk loop, records no further
\* chunk and makes no further attempt (the successful attempt is its last one).
C6_AttemptsBoundedStopAtSuccess ==
    \A r \in Runs :
        /\ run[r].attempts * CHUNK_DURATION <= run[r].max_duration
        /\ run[r].recorded * CHUNK_DURATION <= run[r].max_duration
        /\ run[r].max_duration = 12 => run[r].attempts <= 4
        /\ run[r].success =>
              /\ run[r].pc \notin {"L221", "L128"}
              /\ run[r].attempts = run[r].i + 1 /\ run[r].recorded = run[r].attempts

\* C6 witness: of two runs with max_duration = 12, one has ended after a success
\* at its second attempt, the other has used up its four attempts without one.
C6_Witness ==
    \E r, q \in Runs :
        /\ run[r].max_duration = 12 /\ run[r].pc = "done" /\ run[r].success
        /\ run[r].attempts = 2
        /\ run[q].max_duration = 12 /\ run[q].pc = "L246" /\ run[q].attempts = 4

\* C7: a run in which no attempt succeeded has made exactly
\* ceil(max_duration / chunk_duration) record-and-recognise iterations, and at
\* least one.
C7_CeilIterations ==
    \A r \in Runs :
        run[r].pc = "L246" =>
            /\ run[r].attempts = (run[r].max_duration + CHUNK_DURATION - 1) \div CHUNK_DURATION
            /\ run[r].attempts >= 1

\* C8: a run that has returned has turned the capture-enable switch off, and the
\* switch is on whenever a run is recording a chunk.
C8_SwitchOffAtExitOnWhileRecording ==
    \A r \in Runs :
        /\ run[r].pc = "done" => run[r].turnedOff
        /\ run[r].pc = "L221" => switch = "on"

\* C11 (as stated): calculate_media_timecode returns exactly pos plus the time
\* elapsed between updated and now, and 0 when pos or updated is absent.
C11_TimecodeExact ==
    probe.fn = "calculate_media_timecode" =>
        LET pos == probe.arg[1]
            updated == probe.arg[2]
        IN IF IsNone(pos) \/ IsNone(updated) THEN probe.out = 0
           ELSE IsUnparsable(updated) \/ probe.out = Val(pos) + (now - Val(updated))

\* C11 (amended): calculate_media_timecode returns pos plus the time elapsed
\* between updated and now rounded to two decimals of a second, that is a
\* multiple of 10 ms at most 5 ms away from the sum (35 s for 30 s observed 5 s
\* ago), and 0 when pos or updated is absent or updated cannot be parsed.
C11_TimecodeRounded ==
    probe.fn = "calculate_media_timecode" =>
        LET pos == probe.arg[1]
            updated == probe.arg[2]
        IN IF IsNone(pos) \/ IsNone(updated) THEN probe.out = 0
           ELSE IF IsUnparsable(updated) THEN probe.out = 0
           ELSE LET exact == Val(pos) + (now - Val(updated))
                IN /\ probe.out % 10 = 0
                   /\ probe.out - exact <= 5
                   /\ exact - probe.out <= 5
                   /\ (Val(pos) = 30000 /\ Val(updated) = now - 5000) => probe.out = 35000

\* C11 witness: the position 30 s observed 5 s ago has been projected to 35 s.
C11_Witness ==
    /\ probe.fn = "calculate_media_timecode"
    /\ probe.arg = <<Some(30000), Some(now - 5000)>>
    /\ probe.out = 35000

\* C12: a run of the watcher for a playing player whose content id is the
\* last-processed id starts no session and leaves ACTIVE_LYRICS_LOOP,
\* LAST_MEDIA_CONTENT_ID and the display as they were.
C12_SameIdNoOp ==
    [][(WatcherRuns /\ player.state = "playing" /\ Some(player.id) = LAST_MEDIA_CONTENT_ID)
          => UNCHANGED << ACTIVE_LYRICS_LOOP, LAST_MEDIA_CONTENT_ID, display, sess, started >>]_vars

\* C12, non-radio ids only: the same for a last-processed id that is not a
\* radio id.
C12_SameTrackNoOp ==
    [][(/\ WatcherRuns
        /\ player.state = "playing"
        /\ ~IsRadio(player.id)
        /\ Some(player.id) = LAST_MEDIA_CONTENT_ID)
          => UNCHANGED << ACTIVE_LYRICS_LOOP, LAST_MEDIA_CONTENT_ID, display, sess, started >>]_vars

C14_StoppedLeavesNoLine ==
    (/\ listeners > 0
     /\ pendingCb = 0
     /\ player.state # "playing"
     /\ \A s \in Sessions : ~Active(s))
        => display[2] = ""

\* C15: while a session started by a tagging hand-off is in its loop, no step
\* creates another session from a tagging hand-off.
C15_DuplicateHandoffDropped ==
    [][(\E s \in Sessions : InLoop(s) /\ sess[s].audiofingerprint)
          => ~(started' = started + 1 /\ sess'[started'].audiofingerprint)]_vars

\* C16: a run of the watcher for a player that is playing the last-processed
\* content id (no track change, no stop) does not cancel a session started by
\* tagging: with such a session in its loop and ACTIVE_LYRICS_LOOP True, the
\* flag stays True.
C16_RepeatKeepsTaggingSession ==
    [][(/\ WatcherRuns
        /\ player.state = "playing"
        /\ Some(player.id) = LAST_MEDIA_CONTENT_ID
        /\ ACTIVE_LYRICS_LOOP = "True"
        /\ \E s \in Sessions : InLoop(s) /\ sess[s].audiofingerprint)
          => ACTIVE_LYRICS_LOOP' = "True"]_vars

\* C16, the other direction: no step of a tagging run other than the hand-off
\* of a match changes ACTIVE_LYRICS_LOOP or a session.
C16_TaggingKeepsHostSession ==
    [][(run' # run /\ started' = started) => UNCHANGED << ACTIVE_LYRICS_LOOP, sess >>]_vars

\* C17: a recognition attempt sets success exactly when the response has the
\* status message Success and holds at least one match.
C17_SuccessIffMatch ==
    [][\A r \in Runs, response \in Responses :
          RunRecognised(r, response)
             => (run'[r].success <=> HoldsMatch(response))]_vars

\* C18: a run that leaves its chunk loop with every chunk attempted and no
\* response that held a match takes the no-match branch; and the no-match
\* branch sets sensor.tagging_result to "No match", creates one notification,
\* clears the display and starts no session.
C18_ExhaustedReportsNoMatch ==
    [][\A r \in Runs :
          /\ (/\ run[r].pc = "L236"
              /\ run'[r].pc \in {"L244", "L246"}
              /\ run[r].attempts = run[r].total_chunks
              /\ ~run[r].matched)
                => run'[r].pc = "L246"
          /\ (run[r].pc = "L246" /\ run'[r].pc = "L263")
                => /\ tagging_result' = "No match"
                   /\ run'[r].notifications = run[r].notifications + 1
                   /\ display' = Clear
                   /\ UNCHANGED << sess, started >>]_vars

\* C18, the branch alone: a run in which no attempt was taken for a success
\* sets "No match", creates one notification, clears the display and starts
\* no session.
C18_NoMatchBranch ==
    [][\A r \in Runs :
          (run[r].pc = "L246" /\ run'[r].pc = "L263")
             => /\ ~run[r].success
                /\ run[r].attempts = run[r].total_chunks
                /\ tagging_result' = "No match"
                /\ run'[r].notifications = 1
                /\ display' = Clear
                /\ UNCHANGED << sess, started >>]_vars

\* C19: get_media_player_info called for an entity that does not exist does
\* not raise and returns the all-absent result.
C19_MissingEntityReturnsAbsent ==
    (probe.fn = "get_media_player_info" /\ IsNone(probe.arg[1]))
        => (~probe.out.raised /\ ~probe.out.found)

\* C19, inside a session: no session ends by an exception that leaves
\* fetch_lyrics_for_track.
C19_NoFaultLeavesSession ==
    \A s \in Sessions : ~obs[s].raised

\* the digits of every stamped line of the text parse
WellFormed(doc) == \A k \in 1..Len(doc) : doc[k].stamped => doc[k].parse = "ok"
NonDecreasing(timeline) ==
    \A k \in 1..Len(timeline) - 1 : timeline[k] <= timeline[k + 1]
\* the text without its lines of unparsable digits
RECURSIVE WithoutBad(_)
WithoutBad(doc) ==
    IF doc = <<>> THEN <<>>
    ELSE IF Head(doc).parse = "bad" THEN WithoutBad(Tail(doc))
    ELSE <<Head(doc)>> \o WithoutBad(Tail(doc))

\* C20: for a text whose timestamps are all well-formed, lyricSplit returns a
\* non-decreasing timeline, whatever the order of the lines; and a line with
\* unparsable digits is dropped without raising and without a change to what
\* is returned for the other lines.
C20_TimelineNonDecreasing ==
    probe.fn = "lyricSplit" =>
        /\ WellFormed(probe.arg) => (~probe.out.raised /\ NonDecreasing(probe.out.timeline))
        /\ WellFormed(WithoutBad(probe.arg)) =>
               (~probe.out.raised /\ probe.out = lyricSplit(WithoutBad(probe.arg)))

\* C20, second half alone: a line with digits that int() or float() rejects is
\* dropped without raising and without a change to what is returned for the
\* other lines.
C20_BadLineDropped ==
    (probe.fn = "lyricSplit" /\ WellFormed(WithoutBad(probe.arg)))
        => (~probe.out.raised /\ probe.out = lyricSplit(WithoutBad(probe.arg)))

\* what the text holds: an offset minutes*60000 + seconds*1000 and the text of
\* every line with a leading timestamp and non-empty text, in input order
RECURSIVE Stamped(_)
Stamped(doc) ==
    IF doc = <<>> THEN [timeline |-> <<>>, lrc |-> <<>>]
    ELSE LET l == Head(doc)
             r == Stamped(Tail(doc))
         IN IF l.stamped /\ l.text # ""
            THEN [timeline |-> <<l.minutes * 60000 + l.millis>> \o r.timeline,
                  lrc |-> <<l.text>> \o r.lrc]
            ELSE r

\* C21: for a text whose timestamps are well-formed, lyricSplit returns two
\* sequences of equal length with one entry, in input order, for every line
\* with a leading timestamp (any two-digit minute value) and non-empty text,
\* the offset being minutes*60000 + seconds*1000.
C21_OneEntryPerStampedLine ==
    (probe.fn = "lyricSplit" /\ WellFormed(probe.arg))
        => /\ ~probe.out.raised
           /\ Len(probe.out.timeline) = Len(probe.out.lrc)
           /\ probe.out.timeline = Stamped(probe.arg).timeline
           /\ probe.out.lrc = Stamped(probe.arg).lrc

\* C21, what holds of every text: when lyricSplit returns, the two sequences
\* have equal length, and the lines it returns are lines with a leading
\* timestamp and non-empty text, in input order, with an offset at most 1 ms
\* below minutes*60000 + seconds*1000.
C21_ParallelSequences ==
    (probe.fn = "lyricSplit" /\ ~probe.out.raised)
        => /\ Len(probe.out.timeline) = Len(probe.out.lrc)
           /\ \E pick \in SUBSET (1..Len(Stamped(probe.arg).lrc)) :
                 LET idx == [k \in 1..Cardinality(pick) |->
                               CHOOSE i \in pick : Cardinality({j \in pick : j < i}) = k - 1]
                 IN /\ Len(probe.out.lrc) = Cardinality(pick)
                    /\ \A k \in 1..Cardinality(pick) :
                          /\ probe.out.lrc[k] = Stamped(probe.arg).lrc[idx[k]]
                          /\ probe.out.timeline[k] \in
                                {Stamped(probe.arg).timeline[idx[k]] - 1,
                                 Stamped(probe.arg).timeline[idx[k]]}

\* C22: a fetch_lyrics request (the step that registers a listener) made
\* while the player is playing a non-radio content id creates a session.
C22_RequestStartsSession ==
    [][(/\ listeners' = listeners + 1
        /\ player.state = "playing"
        /\ player.id # IdNone
        /\ ~IsRadio(player.id))
          => started' = started + 1]_vars

\* C23: with the watcher registered, the notification that the player has
\* paused on the last-processed content id leaves a session that is in its
\* loop running: ACTIVE_LYRICS_LOOP, the condition of its loop, stays True, so
\* that the session can go on with its lines after the resume.
C23_PauseKeepsSession ==
    [][(/\ WatcherRuns
        /\ player.state = "paused"
        /\ Some(player.id) = LAST_MEDIA_CONTENT_ID
        /\ ACTIVE_LYRICS_LOOP = "True"
        /\ \E s \in Sessions : InLoop(s) /\ sess[s].pc # "L296")
          => ACTIVE_LYRICS_LOOP' = "True"]_vars

\* C24: the projection a session makes when it finds the player resumed, e
\* after the resume, is p + e, p being the offset projected at the instant the
\* player paused: the offset has not advanced over the pause.
C24_ResumeProjection ==
    [][\A s \in Sessions :
          (/\ sess[s].pc = "pause"
           /\ sess'[s].pc \in {"L307", "L296"}
           /\ probe.fn = "playback"
           /\ ~IsNone(probe.arg))
             => sess'[s].media_timecode = probe.out + (now - Val(probe.arg))]_vars

\* C24, when the session sees both turns at once: a pause found at the loop
\* test at the instant it began, and a resume found by the poll at the instant
\* it happened, leave the projection where it was.
C24_PromptPauseFrozen ==
    [][\A s \in Sessions :
          (/\ sess[s].pc = "pause"
           /\ sess'[s].pc \in {"L307", "L296"}
           /\ probe.fn = "playback"
           /\ probe.arg = Some(now)
           /\ probe.out = calculate_media_timecode(sess[s].pos, sess[s].updated_at,
                                                   sess[s].pause_start))
             => sess'[s].media_timecode = probe.out]_vars

\* seconds the current access token has left
SecondsLeft == spotify_service.expires_at - clock

\* a refresh token is stored
HoldsRefreshToken == ~IsNone(spotify_service.refresh_token)

\* C25: refresh_access_token sends the token request exactly when a refresh
\* token is stored and the current token has 300 seconds or less left (or has
\* expired); with more than 300 seconds left it sends none and marks the
\* service authorized; with no refresh token it sends none and marks the
\* service unauthorized; a refresh that fails marks the service unauthorized.
C25_RefreshExactlyWhenDue ==
    [][\A c \in Calls :
         LET r == calls'[c].refresh
             called == r \in {"requested", "valid", "no_token"}
             sent == calls'[c].pc = "refresh_post" /\ calls[c].pc # "refresh_post"
         IN /\ called => (sent <=> (HoldsRefreshToken /\ SecondsLeft <= 300))
            /\ sent => called
            /\ (called /\ HoldsRefreshToken /\ SecondsLeft > 300)
                 => (~sent /\ spotify_service'.authorized)
            /\ (called /\ ~HoldsRefreshToken)
                 => (~sent /\ ~spotify_service'.authorized)
            /\ r = "failed" => ~spotify_service'.authorized]_vars

\* C25 witness: a call has just sent the token request for a token that has
\* exactly 300 seconds left
C25_Witness ==
    \E c \in Calls : /\ calls[c].refresh = "requested"
                     /\ calls[c].pc = "refresh_post"
                     /\ SecondsLeft = 300

\* C26: when an exchange_code or a refresh_access_token has saved its tokens
\* and marked the service authorized, the tokens in the store are the tokens
\* in memory (access token, refresh token, expiry).
C26_StoreEqualsMemory ==
    [][\A c \in Calls :
         calls'[c].saved => (/\ spotify_service'.authorized
                             /\ store' = Some(TokenData(spotify_service')))]_vars

\* C26 with one coroutine at a time: while no second coroutine of the service
\* has been started, the store equals the memory after every save that succeeds.
C26_AloneStoreEqualsMemory ==
    [][\A c \in Calls :
         (calls'[c].saved /\ \A k \in Calls \ {c} : calls[k].kind = "none")
            => (/\ spotify_service'.authorized
                /\ store' = Some(TokenData(spotify_service')))]_vars

\* C26, the order alone: an exchange_code or a refresh_access_token marks the
\* service authorized in the step that ends its save, with what it saved in
\* the store.
C26_AuthorizedAfterSave ==
    [][\A c \in Calls :
         calls'[c].saved => (/\ spotify_service'.authorized
                             /\ calls[c].pc \in {"exchange_save", "refresh_save"}
                             /\ store' = calls[c].data)]_vars

\* C27: add_track_to_playlist sends the add request only for a track that is
\* not in the playlist, so the track is never in the playlist twice, also when
\* the lookup of the playlist fails.
C27_NoAddWhenInPlaylist ==
    [][\A c \in Calls :
         (calls'[c].pc = "add_post" /\ calls[c].pc # "add_post") => playlist = 0]_vars

\* C27, the consequence: the playlist never holds the track twice.
C27_NeverAddedTwice == playlist <= 1

\* C28: a call of add_track_to_playlist that has returned False has created
\* a notification.
C28_FalseAfterNotification ==
    \A c \in Calls :
        (calls[c].kind = "add" /\ calls[c].result = "False") => calls[c].notified

\* C28, the steps that do notify: a call that returned False with the service
\* authorized and a playlist id set has created a notification.
C28_LaterStepsNotify ==
    [][\A c \in Calls :
         (/\ calls[c].kind = "add"
          /\ calls[c].pc \in {"search_get", "add_post"}
          /\ calls'[c].result = "False") => calls'[c].notified]_vars

\* the part of a title before its first hyphen
BeforeHyphen(track) ==
    LET hyphens == {i \in 1..Len(track) : track[i].kind = "hyphen"}
    IN IF hyphens = {} THEN track
       ELSE SubSeq(track, 1, (CHOOSE i \in hyphens : \A j \in hyphens : i <= j) - 1)

\* the words of a title, without its annotations in brackets
WordsOf(track) ==
    LET IsWord(t) == t.kind = "word"
        kept == SelectSeq(track, IsWord)
    IN [i \in 1..Len(kept) |-> kept[i].text]

\* C29: clean_track_name('Song (Remastered 2011) - From "Movie" Soundtrack')
\* is 'Song'; for every title the result is what stands before the first
\* hyphen without the annotations in brackets, and it depends on the title only.
C29_CleanTrackName ==
    probe.fn = "clean_track_name"
        => /\ probe.out = WordsOf(BeforeHyphen(probe.arg))
           /\ probe.arg = ExampleTitle => probe.out = << "Song" >>

\* C29 witness: clean_track_name has been called on the example title
C29_Witness ==
    /\ probe.fn = "clean_track_name"
    /\ probe.arg = ExampleTitle
    /\ probe.out = << "Song" >>

\* C30: a session that starts with its position or its position timestamp
\* absent ends at once, without searching for lyrics and without a write to
\* the display; a session that starts with the lyrics toggle off returns with
\* ACTIVE_LYRICS_LOOP and the display as they were and every other session
\* where it was.
C30_InputChecksFirst ==
    [][\A s \in Sessions :
         (holder = 0 /\ sess[s].pc = "start")
            => /\ ((IsNone(sess[s].pos) \/ IsNone(sess[s].updated_at))
                     /\ sess'[s].pc # "start")
                  => (sess'[s].pc = "done" /\ display' = display)
               /\ (~IsNone(sess[s].pos) /\ ~IsNone(sess[s].updated_at)
                     /\ SessionBegin(s, FALSE))
                  => /\ sess'[s].pc = "done"
                     /\ ACTIVE_LYRICS_LOOP' = ACTIVE_LYRICS_LOOP
                     /\ display' = display
                     /\ \A k \in Sessions \ {s} : sess'[k] = sess[k] /\ obs'[k] = obs[k]]_vars

\* C30 witness: a session has returned from its checks, having written nothing
\* and raised nothing, while another session is in its loop with the flag
\* True and a line on the display
C30_Witness ==
    \E s \in Sessions, k \in Sessions :
        /\ s # k
        /\ sess[s].pc = "done" /\ obs[s].lastWrite = "none" /\ ~obs[s].raised
        /\ InLoop(k) /\ ~obs[k].cancelled /\ obs[k].wroteLine
        /\ ACTIVE_LYRICS_LOOP = "True"

\* ---------------------------------------------------------------- claim C31
\* C31: under uninterrupted playback (the player keeps playing, nothing cancels
\* the session, time advances) a session that has entered its display loop with
\* a non-empty non-decreasing timeline terminates: it leaves the loop with the
\* display cleared and ACTIVE_LYRICS_LOOP set to None.
C31_SessionTerminates ==
    (InLoop(1) /\ sess[1].timeline # << >> /\ NonDecreasing(sess[1].timeline))
        ~> (sess[1].pc = "done" /\ display = Clear /\ ACTIVE_LYRICS_LOOP = "None")

\* C31 witness: a session that entered its loop and wrote a line has returned,
\* the display is clear and the flag is None.
C31_Witness ==
    /\ sess[1].pc = "done"
    /\ obs[1].enteredLoop
    /\ obs[1].wroteLine
    /\ display = Clear
    /\ ACTIVE_LYRICS_LOOP = "None"

\* ---------------------------------------------------------------- claim C32
\* a session returns in this step
Returns32(s) == sess[s].pc \notin {"idle", "done"} /\ sess'[s].pc = "done"

\* no session is in its display loop
NoLoop == \A k \in Sessions : ~InLoop(k)

\* C32: when fetch_lyrics_for_track returns, by whatever path, it does not leave
\* ACTIVE_LYRICS_LOOP at True with no display loop running.
C32_ReturnLeavesIdle ==
    [][\A s \in Sessions : Returns32(s) => ~(ACTIVE_LYRICS_LOOP' = "True" /\ NoLoop')]_vars

\* C32, the returns from inside the loop: a session that had entered its display
\* loop (timeline completed, or interrupted) leaves the flag at None.
C32_LoopExitLeavesNone ==
    [][\A s \in Sessions : (Returns32(s) /\ InLoop(s)) => ACTIVE_LYRICS_LOOP' = "None"]_vars

\* ---------------------------------------------------------------- claim C33
\* C33: every iteration of the display loop that does not exit yields to the
\* scheduler (it sleeps at least one increment), whatever the projected offset:
\* a session at the loop test that has not awaited since its last test is about
\* to run an iteration that exits or awaits.
C33_IterationYields ==
    \A s \in Sessions :
        (holder = s /\ sess[s].pc = "top" /\ Truthy(ACTIVE_LYRICS_LOOP)
            /\ player.state # "paused")
            => ExitsOrMatches(sess[s])

\* C33, the iterations that find an interval: after the lines are written the
\* session sleeps one full increment of IntervalMs before it tests the flag again.
C33_MatchSleepsIncrement ==
    [][\A s \in Sessions :
          (sess[s].pc = "L307" /\ SessionAfterLine(s) /\ sess'[s].pc = "sleep")
              => sess'[s].wake = now + IntervalMs]_vars

\* ---------------------------------------------------------------- claim C34
\* run r is about to handle a response that holds a match
HandlesMatch(r) ==
    run[r].pc = "L244" /\ ~IsNone(run[r].response) /\ Val(run[r].response).music # <<>>

ChunkInProgress(r) == run[r].pc \in {"L221", "L128"}

\* C35: at most one chunk recording or recognition call is in progress at any
\* time, over all runs.
C35_OneChunkInProgress == Cardinality({r \in Runs : ChunkInProgress(r)}) <= 1

\* C35, second half: a run that has been stopped by a later fetch_audio_tag makes
\* no further recording or recognition attempt.
C35_StoppedRunAttemptsNoMore ==
    [][\A r \in Runs :
          (run[r].pc # "idle" /\ ~run[r].running)
              => (run'[r].recorded = run[r].recorded /\ run'[r].attempts = run[r].attempts)]_vars

\* ---------------------------------------------------------------- claim C36
\* run r has set sensor.tagging_result: it passed line 163 or line 247, each of
\* which is followed by the creation of a notification
ReportedResult(r) == run[r].notifications > 0

\* C36: every tagging run ends with sensor.tagging_result set by that run to the
\* match summary or to "No match", also a run that ends through an unexpected
\* error.
C36_EndedRunReported ==
    \A r \in Runs :
        run[r].pc = "done" => (ReportedResult(r) /\ tagging_result \in {"summary", "No match"})

\* C36, the runs that end without an error: a run that returns from line 263 has
\* set the result entity.
C36_NormalEndReported ==
    [][\A r \in Runs : (run[r].pc = "L263" /\ RunEnd(r)) => ReportedResult(r)]_vars

\* ---------------------------------------------------------------- claim C37
\* C37: the exit step of a session that was replaced while in its loop (the
\* assignment of None after the loop, lyrics.py:327) never makes the loop
\* condition of the session that replaced it false: with the new session
\* showing a line and the flag True, the flag is True after the old session,
\* which had the flag lowered while in its loop, has returned.
C37_OldExitKeepsNewLoop ==
    [][\A s, k \in Sessions :
          (s < k /\ obs[s].superseded /\ obs[s].cancelled /\ InLoop(s) /\ Returns32(s)
              /\ sess[k].pc \in {"L307", "sleep"} /\ Truthy(ACTIVE_LYRICS_LOOP))
              => Truthy(ACTIVE_LYRICS_LOOP')]_vars

\* ---------------------------------------------------------------- claim C38
\* session s is at its first loop test, has written no line yet, and the
\* projected offset is 0
StartsAtZero(s) ==
    /\ sess[s].pc = "top"
    /\ ~obs[s].wroteLine
    /\ calculate_media_timecode(sess[s].pos, sess[s].updated_at, now) = 0

\* the k-th line of the lyrics of session s is in the middle slot of the display
ShownAsCurrent(s, k) == k <= Len(sess[s].lrc) /\ display[2] = sess[s].lrc[k]

\* C38: under uninterrupted playback from offset 0 every line of the timeline,
\* the last one included, is at some point written to the display as the current
\* (middle) line before the session finishes.
C38_EveryLineShown ==
    \A k \in 1..MaxLines :
        (StartsAtZero(1) /\ k <= Len(sess[1].lrc)) ~> ShownAsCurrent(1, k)

\* C38, the lines before the last: every line but the last becomes the current
\* line.
C38_AllButLastShown ==
    \A k \in 1..MaxLines :
        (StartsAtZero(1) /\ k < Len(sess[1].lrc))
            ~> ShownAsCurrent(1, k)

\* ---------------------------------------------------------------- claim C39
\* no tagging run is in progress, and one has ended
AllRunsEnded ==
    /\ \E r \in Runs : run[r].pc = "done"
    /\ \A r \in Runs : run[r].pc \in {"idle", "done"}

\* C39: after a tagging run has ended by any path (match, no match, unexpected
\* error) the first slot of the display no longer holds the placeholder
\* "Listening......" written at the start of the run.
C39_PlaceholderGone == AllRunsEnded => display # Listening

\* C39, the ends without an error: a run that is the only one started and returns
\* from line 263 leaves the three slots empty.
C39_NormalEndCleared ==
    [][\A r \in Runs :
          (tagging_service = 1 /\ run[r].pc = "L263" /\ RunEnd(r)) => display' = Clear]_vars

\* ---------------------------------------------------------------- claim C40
\* the watcher is about to handle a playing notification with a new non-radio id
SeesNewTrack ==
    /\ WatcherRuns
    /\ player.state = "playing"
    /\ ~IsRadio(player.id)
    /\ player.id # IdNone
    /\ Some(player.id) # LAST_MEDIA_CONTENT_ID

====
